---------------------------- MODULE Spec2Model ----------------------------
(***************************************************************************)
(* Model of the memory-management simulator: the free-list allocator       *)
(* (PhysicalMemory), the buddy allocator (BuddyAllocator), the cache level *)
(* (DirectMappedCache), the two-level cache hierarchy (CacheHierarchy) and *)
(* the virtual memory manager (VirtualMemoryManager).                      *)
(*                                                                         *)
(* Every engine is an object of its own; each has its own specification    *)
(* (SpecFL, SpecBuddy, SpecCache, SpecHier, SpecVM, SpecVMPair) whose      *)
(* actions are the engine's public operations.  Objects are records, and   *)
(* each method is an operator from (object, arguments) to the object after *)
(* the call together with the value returned.                              *)
(***************************************************************************)
EXTENDS Integers, Sequences, FiniteSets

VARIABLES
    total_size_,    \* PhysicalMemory::total_size_
    blocks_,        \* PhysicalMemory::blocks_ (std::list<MemoryBlock>, in list order)
    next_id_,       \* PhysicalMemory::next_id_
    fl_call,        \* the last PhysicalMemory call: its name, argument and return value
    fl_issued,      \* history: the ids returned by successful allocations, in order
    fl_freed,       \* history: the returned ids that were passed to free_block
    total_memory_,  \* BuddyAllocator::total_memory_
    max_order_,     \* BuddyAllocator::max_order_
    free_lists_,    \* BuddyAllocator::free_lists_: order -> list of free addresses
    allocated_blocks_,  \* BuddyAllocator::allocated_blocks_: address -> order
    buddy_call,     \* the last BuddyAllocator call: its name, argument and return value
    buddy_outstanding,  \* history: the addresses returned and not yet passed to free_buddy
    buddy_released,     \* history: the order of the block the last call released, -1 for none
    id_to_addr_,    \* BuddyAllocator::id_to_addr_
    addr_to_id_,    \* BuddyAllocator::addr_to_id_
    buddy_next_id_, \* BuddyAllocator::next_id_
    iface_call,     \* the last call of BuddyAllocator::allocate or free_block(id)
    cache_,         \* a DirectMappedCache object used on its own
    cache_call,     \* the last call on cache_: its name, argument and return value
    cache_accesses, \* history: the number of access calls made on cache_
    cache_last_hit, \* history: the set, the line and the clock of the last access hit
    cache_installs, \* history: per set, the tags installed by access and fill, in order
    l1_,            \* CacheHierarchy::l1_
    l2_,            \* CacheHierarchy::l2_
    hier_call,      \* the last CacheHierarchy::access call: its argument and return value
    vm_,            \* a VirtualMemoryManager object
    vm_call,        \* the last translate call on vm_: argument, outcome, locals
    vm_loads,       \* history: the vpns loaded into vm_ by page faults, in order
    vm_load_call,   \* history: per vpn, the va and the return value of its last load
    vm_fifo,        \* a VirtualMemoryManager constructed with FIFO
    vm_lru,         \* a VirtualMemoryManager constructed with LRU, same dimensions
    pair_call,      \* the last translate call made on both vm_fifo and vm_lru
    ctor_call       \* a constructor call: the engine, the arguments and the outcome

flVars == << total_size_, blocks_, next_id_, fl_call, fl_issued, fl_freed >>

buddyVars == << total_memory_, max_order_, free_lists_, allocated_blocks_, buddy_call,
               buddy_outstanding, buddy_released,
               id_to_addr_, addr_to_id_, buddy_next_id_, iface_call >>

ifaceVars == << id_to_addr_, addr_to_id_, buddy_next_id_, iface_call >>

cacheVars == << cache_, cache_call, cache_accesses, cache_last_hit, cache_installs >>

hierVars == << l1_, l2_, hier_call >>

vmVars == << vm_, vm_call, vm_loads, vm_load_call >>

pairVars == << vm_fifo, vm_lru, pair_call >>

ctorVars == << ctor_call >>

vars == << total_size_, blocks_, next_id_, fl_call, fl_issued, fl_freed,
           total_memory_, max_order_, free_lists_, allocated_blocks_, buddy_call,
           buddy_outstanding, buddy_released,
           id_to_addr_, addr_to_id_, buddy_next_id_, iface_call,
           cache_, cache_call, cache_accesses, cache_last_hit, cache_installs,
           l1_, l2_, hier_call,
           vm_, vm_call, vm_loads, vm_load_call, vm_fifo, vm_lru, pair_call,
           ctor_call >>

(***************************************************************************)
(* Bounds of the exploration.                                              *)
(***************************************************************************)
MaxTotalSize == 4     \* arenas of 1..MaxTotalSize bytes
MaxId == 4            \* ids 1..MaxId are handed out, then allocation stops
MaxOrder == 2         \* buddy arenas of 2^0 .. 2^MaxOrder bytes
MaxBuddyId == 2       \* BuddyAllocator::allocate hands out ids 1..MaxBuddyId
MaxCacheSize == 4     \* caches of 1..MaxCacheSize bytes
MaxLineSize == 2      \* lines of 1..MaxLineSize bytes
MaxAssoc == 2         \* associativity 1..MaxAssoc
MaxAddr == 3          \* physical addresses 0..MaxAddr
MaxCacheOps == 4      \* calls made on a cache used on its own
MaxHierOps == 4       \* calls of CacheHierarchy::access
MaxPages == 3         \* page tables of 1..MaxPages entries
MaxFrames == 2        \* 1..MaxFrames physical frames
MaxPageSize == 2      \* pages of 1..MaxPageSize bytes
MaxFaults == 4        \* translate is called until MaxFaults page faults happened

(***************************************************************************)
(* Generic helpers.                                                        *)
(***************************************************************************)
Min(S) == CHOOSE x \in S : \A y \in S : x <= y

Range(s) == { s[i] : i \in DOMAIN s }

RemoveAt(s, i) == SubSeq(s, 1, i - 1) \o SubSeq(s, i + 1, Len(s))

InsertAt(s, i, x) == SubSeq(s, 1, i - 1) \o << x >> \o SubSeq(s, i, Len(s))

RECURSIVE SumSizes(_)
SumSizes(bl) == IF bl = << >> THEN 0 ELSE Head(bl).size + SumSizes(Tail(bl))

(***************************************************************************)
(* Free-list allocator (PhysicalMemory).                                   *)
(***************************************************************************)
NoId == -1

MemoryBlock(start, size, free, id) ==
    [start |-> start, size |-> size, free |-> free, id |-> id]

\* PhysicalMemory::PhysicalMemory: one free block spanning the arena.
PhysicalMemory(total_size) == << MemoryBlock(0, total_size, TRUE, NoId) >>

\* The split that forgets to move the remainder's start.
allocate_from_block_keeps_start(bl, nid, i, size) ==
    IF bl[i].size = size
    THEN [blocks |-> [bl EXCEPT ![i].free = FALSE, ![i].id = nid],
          next_id |-> nid + 1, ret |-> nid]
    ELSE [blocks |-> InsertAt([bl EXCEPT ![i].size = @ - size], i,
                              MemoryBlock(bl[i].start, size, FALSE, nid)),
          next_id |-> nid + 1, ret |-> nid]

\* An allocation that hands out next_id_ without advancing it.
allocate_from_block_same_id(bl, nid, i, size) ==
    IF bl[i].size = size
    THEN [blocks |-> [bl EXCEPT ![i].free = FALSE, ![i].id = nid],
          next_id |-> nid, ret |-> nid]
    ELSE [blocks |-> InsertAt([bl EXCEPT ![i].start = @ + size,
                                         ![i].size = @ - size], i,
                              MemoryBlock(bl[i].start, size, FALSE, nid)),
          next_id |-> nid, ret |-> nid]

\* PhysicalMemory::allocate_from_block on the block at position i: an exact
\* fit is marked allocated, otherwise the allocated block is inserted before
\* the remainder, whose start and size are adjusted.
allocate_from_block(bl, nid, i, size) ==
    IF bl[i].size = size
    THEN [blocks |-> [bl EXCEPT ![i].free = FALSE, ![i].id = nid],
          next_id |-> nid + 1, ret |-> nid]
    ELSE [blocks |-> InsertAt([bl EXCEPT ![i].start = @ + size,
                                         ![i].size = @ - size], i,
                              MemoryBlock(bl[i].start, size, FALSE, nid)),
          next_id |-> nid + 1, ret |-> nid]

\* A failed allocation that uses up an id all the same.
AllocFailed_burns_id(bl, nid) == [blocks |-> bl, next_id |-> nid + 1, ret |-> -1]

AllocFailed(bl, nid) == [blocks |-> bl, next_id |-> nid, ret |-> -1]

\* A scan that keeps the last block that is free and large enough.
RECURSIVE last_fit_scan(_, _, _)
last_fit_scan(bl, size, i) ==
    IF i > Len(bl) THEN 0
    ELSE LET later == last_fit_scan(bl, size, i + 1)
         IN  IF later # 0 THEN later
             ELSE IF bl[i].free /\ bl[i].size >= size THEN i ELSE 0

\* The scan of allocate_first_fit: the first position >= i whose block is
\* free and large enough, 0 when the scan reaches the end.
RECURSIVE first_fit_scan(_, _, _)
first_fit_scan(bl, size, i) ==
    IF i > Len(bl) THEN 0
    ELSE IF bl[i].free /\ bl[i].size >= size THEN i
    ELSE first_fit_scan(bl, size, i + 1)

allocate_first_fit(bl, nid, size) ==
    LET it == first_fit_scan(bl, size, 1)
    IN  IF it # 0 THEN allocate_from_block(bl, nid, it, size)
        ELSE AllocFailed(bl, nid)

\* A best-fit scan that moves on to a later block of the same size.
RECURSIVE best_fit_scan_last_tie(_, _, _, _)
best_fit_scan_last_tie(bl, size, i, best) ==
    IF i > Len(bl) THEN best
    ELSE IF bl[i].free /\ bl[i].size >= size
            /\ (best = 0 \/ bl[i].size <= bl[best].size)
         THEN best_fit_scan_last_tie(bl, size, i + 1, i)
         ELSE best_fit_scan_last_tie(bl, size, i + 1, best)

\* The scan of allocate_best_fit; best = 0 stands for blocks_.end().
RECURSIVE best_fit_scan(_, _, _, _)
best_fit_scan(bl, size, i, best) ==
    IF i > Len(bl) THEN best
    ELSE IF bl[i].free /\ bl[i].size >= size
            /\ (best = 0 \/ bl[i].size < bl[best].size)
         THEN best_fit_scan(bl, size, i + 1, i)
         ELSE best_fit_scan(bl, size, i + 1, best)

allocate_best_fit(bl, nid, size) ==
    LET best == best_fit_scan(bl, size, 1, 0)
    IN  IF best # 0 THEN allocate_from_block(bl, nid, best, size)
        ELSE AllocFailed(bl, nid)

\* A worst-fit scan that moves on to a later block of the same size.
RECURSIVE worst_fit_scan_last_tie(_, _, _, _)
worst_fit_scan_last_tie(bl, size, i, worst) ==
    IF i > Len(bl) THEN worst
    ELSE IF bl[i].free /\ bl[i].size >= size
            /\ (worst = 0 \/ bl[i].size >= bl[worst].size)
         THEN worst_fit_scan_last_tie(bl, size, i + 1, i)
         ELSE worst_fit_scan_last_tie(bl, size, i + 1, worst)

\* The scan of allocate_worst_fit; worst = 0 stands for blocks_.end().
RECURSIVE worst_fit_scan(_, _, _, _)
worst_fit_scan(bl, size, i, worst) ==
    IF i > Len(bl) THEN worst
    ELSE IF bl[i].free /\ bl[i].size >= size
            /\ (worst = 0 \/ bl[i].size > bl[worst].size)
         THEN worst_fit_scan(bl, size, i + 1, i)
         ELSE worst_fit_scan(bl, size, i + 1, worst)

allocate_worst_fit(bl, nid, size) ==
    LET worst == worst_fit_scan(bl, size, 1, 0)
    IN  IF worst # 0 THEN allocate_from_block(bl, nid, worst, size)
        ELSE AllocFailed(bl, nid)

\* A search that settles for the first allocated block whose id is not below id.
RECURSIVE find_block_at_least(_, _, _)
find_block_at_least(bl, id, i) ==
    IF i > Len(bl) THEN 0
    ELSE IF ~bl[i].free /\ bl[i].id >= id THEN i
    ELSE find_block_at_least(bl, id, i + 1)

\* The position of the first allocated block carrying id, 0 when there is none.
RECURSIVE find_block(_, _, _)
find_block(bl, id, i) ==
    IF i > Len(bl) THEN 0
    ELSE IF ~bl[i].free /\ bl[i].id = id THEN i
    ELSE find_block(bl, id, i + 1)

\* free_block without the merge with the successor.
free_block_no_next_merge(bl, id) ==
    LET it == find_block(bl, id, 1)
    IN  IF it = 0 THEN bl
        ELSE LET b1 == [bl EXCEPT ![it].free = TRUE, ![it].id = NoId]
                 mergePrev == it > 1 /\ b1[it - 1].free
             IN  IF mergePrev
                 THEN RemoveAt([b1 EXCEPT ![it - 1].size = @ + b1[it].size], it)
                 ELSE b1

\* free_block without the merge into the predecessor.
free_block_no_prev_merge(bl, id) ==
    LET it == find_block(bl, id, 1)
    IN  IF it = 0 THEN bl
        ELSE LET b1 == [bl EXCEPT ![it].free = TRUE, ![it].id = NoId]
             IN  IF it < Len(b1) /\ b1[it + 1].free
                 THEN RemoveAt([b1 EXCEPT ![it].size = @ + b1[it + 1].size], it + 1)
                 ELSE b1

\* PhysicalMemory::free_block: the block is marked free, merged into a free
\* predecessor (which then is the current block), and a free successor is
\* merged into the current block.
free_block(bl, id) ==
    LET it == find_block(bl, id, 1)
    IN  IF it = 0 THEN bl
        ELSE LET b1 == [bl EXCEPT ![it].free = TRUE, ![it].id = NoId]
                 mergePrev == it > 1 /\ b1[it - 1].free
                 b2 == IF mergePrev
                       THEN RemoveAt([b1 EXCEPT ![it - 1].size = @ + b1[it].size], it)
                       ELSE b1
                 cur == IF mergePrev THEN it - 1 ELSE it
             IN  IF cur < Len(b2) /\ b2[cur + 1].free
                 THEN RemoveAt([b2 EXCEPT ![cur].size = @ + b2[cur + 1].size], cur + 1)
                 ELSE b2

\* PhysicalMemory::used_memory
RECURSIVE used_memory(_)
used_memory(bl) ==
    IF bl = << >> THEN 0
    ELSE (IF Head(bl).free THEN 0 ELSE Head(bl).size) + used_memory(Tail(bl))

\* PhysicalMemory::largest_free_block
RECURSIVE largest_free_scan(_, _)
largest_free_scan(bl, largest) ==
    IF bl = << >> THEN largest
    ELSE largest_free_scan(Tail(bl),
            IF Head(bl).free /\ Head(bl).size > largest THEN Head(bl).size ELSE largest)

largest_free_block(bl) == largest_free_scan(bl, 0)

FLCall(op, arg, ret) == [op |-> op, arg |-> arg, ret |-> ret]

\* The ids returned so far, with the id of a call that did not fail added.
Issued(issued, ret) == IF ret = -1 THEN issued ELSE Append(issued, ret)

NewFL ==
    /\ total_size_ \in 1..MaxTotalSize
    /\ blocks_ = PhysicalMemory(total_size_)
    /\ next_id_ = 1
    /\ fl_call = FLCall("new", total_size_, 0)
    /\ fl_issued = << >>
    /\ fl_freed = {}

\* Request sizes: 0, every size that can fit, and one that never fits.
RequestSizes == 0..(MaxTotalSize + 1)

AllocateFirstFit ==
    \E size \in RequestSizes :
        /\ next_id_ <= MaxId
        /\ LET r == allocate_first_fit(blocks_, next_id_, size)
           IN  /\ blocks_' = r.blocks
               /\ next_id_' = r.next_id
               /\ fl_call' = FLCall("allocate_first_fit", size, r.ret)
               /\ fl_issued' = Issued(fl_issued, r.ret)
        /\ UNCHANGED << total_size_, fl_freed, buddyVars, cacheVars, hierVars, vmVars, pairVars, ctorVars >>

AllocateBestFit ==
    \E size \in RequestSizes :
        /\ next_id_ <= MaxId
        /\ LET r == allocate_best_fit(blocks_, next_id_, size)
           IN  /\ blocks_' = r.blocks
               /\ next_id_' = r.next_id
               /\ fl_call' = FLCall("allocate_best_fit", size, r.ret)
               /\ fl_issued' = Issued(fl_issued, r.ret)
        /\ UNCHANGED << total_size_, fl_freed, buddyVars, cacheVars, hierVars, vmVars, pairVars, ctorVars >>

AllocateWorstFit ==
    \E size \in RequestSizes :
        /\ next_id_ <= MaxId
        /\ LET r == allocate_worst_fit(blocks_, next_id_, size)
           IN  /\ blocks_' = r.blocks
               /\ next_id_' = r.next_id
               /\ fl_call' = FLCall("allocate_worst_fit", size, r.ret)
               /\ fl_issued' = Issued(fl_issued, r.ret)
        /\ UNCHANGED << total_size_, fl_freed, buddyVars, cacheVars, hierVars, vmVars, pairVars, ctorVars >>

\* Ids passed to free_block: the sentinel, 0, every id handed out so far
\* (live or already freed) and one never issued.
FreeBlock ==
    \E id \in -1..(MaxId + 1) :
        /\ blocks_' = free_block(blocks_, id)
        /\ fl_call' = FLCall("free_block", id, 0)
        /\ fl_freed' = fl_freed \cup ({ id } \cap Range(fl_issued))
        /\ UNCHANGED << total_size_, next_id_, fl_issued, buddyVars, cacheVars, hierVars, vmVars, pairVars, ctorVars >>

NextFL ==
    \/ AllocateFirstFit
    \/ AllocateBestFit
    \/ AllocateWorstFit
    \/ FreeBlock

IdleFL ==
    /\ total_size_ = 0
    /\ blocks_ = << >>
    /\ next_id_ = 0
    /\ fl_call = FLCall("none", 0, 0)
    /\ fl_issued = << >>
    /\ fl_freed = {}

(***************************************************************************)
(* Buddy allocator (BuddyAllocator).                                       *)
(***************************************************************************)
\* 1 << k
Shl1(k) == 2 ^ k

\* Bitwise operations on naturals, bit by bit from the lowest.
RECURSIVE BitAnd(_, _)
BitAnd(x, y) ==
    IF x = 0 \/ y = 0 THEN 0
    ELSE (IF x % 2 = 1 /\ y % 2 = 1 THEN 1 ELSE 0) + 2 * BitAnd(x \div 2, y \div 2)

RECURSIVE BitOr(_, _)
BitOr(x, y) ==
    IF x = 0 THEN y
    ELSE IF y = 0 THEN x
    ELSE (IF x % 2 = 1 \/ y % 2 = 1 THEN 1 ELSE 0) + 2 * BitOr(x \div 2, y \div 2)

RECURSIVE BitXor(_, _)
BitXor(x, y) ==
    IF x = 0 THEN y
    ELSE IF y = 0 THEN x
    ELSE (IF x % 2 # y % 2 THEN 1 ELSE 0) + 2 * BitXor(x \div 2, y \div 2)

\* x >> k, one bit at a time
RECURSIVE Shr(_, _)
Shr(x, k) == IF k = 0 \/ x = 0 THEN x ELSE Shr(x \div 2, k - 1)

\* BuddyAllocator::is_power_of_two
is_power_of_two(x) == x # 0 /\ BitAnd(x, x - 1) = 0

\* BuddyAllocator::log2_exact: the least k with (1 << k) >= x.
RECURSIVE log2_loop(_, _)
log2_loop(x, k) == IF Shl1(k) < x THEN log2_loop(x, k + 1) ELSE k

log2_exact(x) == log2_loop(x, 0)

\* next_power_of_two: the bit smear of x - 1, plus one.
next_power_of_two(x) ==
    IF x = 0 THEN 1
    ELSE LET x0 == x - 1
             x1 == BitOr(x0, Shr(x0, 1))
             x2 == BitOr(x1, Shr(x1, 2))
             x3 == BitOr(x2, Shr(x2, 4))
             x4 == BitOr(x3, Shr(x3, 8))
             x5 == BitOr(x4, Shr(x4, 16))
             x6 == BitOr(x5, Shr(x5, 32))
         IN  x6 + 1

\* static_cast<std::size_t>(-1), the failure value of allocate_buddy.
NoAddr == -1

\* std::unordered_map as a function on its keys.
MapPut(m, k, v) == [x \in (DOMAIN m) \cup {k} |-> IF x = k THEN v ELSE m[x]]

MapErase(m, k) == [x \in (DOMAIN m) \ {k} |-> m[x]]

EmptyMap == [x \in {} |-> 0]

\* A BuddyAllocator object.
Buddy(total, max_order, fl, ab) ==
    [total_memory |-> total, max_order |-> max_order, free_lists |-> fl,
     allocated_blocks |-> ab]

\* BuddyAllocator::BuddyAllocator, for a power of two: the whole arena is one
\* free block of order max_order.
BuddyAllocator(total_memory) ==
    LET mo == log2_exact(total_memory)
    IN  Buddy(total_memory, mo,
              [k \in 0..mo |-> IF k = mo THEN << 0 >> ELSE << >>], EmptyMap)

\* A search that takes the least order with a free block, below k or not.
RECURSIVE find_any_order(_, _)
find_any_order(b, k) ==
    IF k <= b.max_order /\ b.free_lists[k] = << >> THEN find_any_order(b, k + 1) ELSE k

find_order_from_zero(b, k) == find_any_order(b, 0)

\* The search of allocate_buddy: the least order >= k with a free block,
\* max_order + 1 when there is none.
RECURSIVE find_order(_, _)
find_order(b, k) ==
    IF k <= b.max_order /\ b.free_lists[k] = << >> THEN find_order(b, k + 1) ELSE k

\* A split that places the upper half at addr + k instead of addr + (1 << k).
RECURSIVE split_adds_order(_, _, _, _)
split_adds_order(fl, addr, current_order, target_order) ==
    IF current_order > target_order
    THEN LET k == current_order - 1
             buddy_addr == addr + k
         IN  split_adds_order([fl EXCEPT ![k] = << buddy_addr >> \o @], addr, k,
                              target_order)
    ELSE fl

\* The split loop of allocate_buddy: the block at addr of order current_order
\* is halved down to target_order, each upper half going to the head of the
\* free list of its order.
RECURSIVE split(_, _, _, _)
split(fl, addr, current_order, target_order) ==
    IF current_order > target_order
    THEN LET k == current_order - 1
             buddy_addr == addr + Shl1(k)
         IN  split([fl EXCEPT ![k] = << buddy_addr >> \o @], addr, k, target_order)
    ELSE fl

BuddyFailed(b) == [buddy |-> b, ret |-> NoAddr]

\* An allocate_buddy that takes the last block of the free list found.
allocate_buddy_takes_last(b, size) ==
    IF size = 0 \/ size > b.total_memory THEN BuddyFailed(b)
    ELSE LET rounded_size == next_power_of_two(size)
             target_order == log2_exact(rounded_size)
         IN  IF target_order > b.max_order THEN BuddyFailed(b)
             ELSE LET current_order == find_order(b, target_order)
                  IN  IF current_order > b.max_order THEN BuddyFailed(b)
                      ELSE LET list == b.free_lists[current_order]
                               addr == list[Len(list)]
                               popped == [b.free_lists EXCEPT
                                              ![current_order] =
                                                  SubSeq(list, 1, Len(list) - 1)]
                           IN  [buddy |-> [b EXCEPT
                                    !.free_lists =
                                        split(popped, addr, current_order, target_order),
                                    !.allocated_blocks = MapPut(@, addr, target_order)],
                                ret |-> addr]

\* BuddyAllocator::allocate_buddy
allocate_buddy(b, size) ==
    IF size = 0 \/ size > b.total_memory THEN BuddyFailed(b)
    ELSE LET rounded_size == next_power_of_two(size)
             target_order == log2_exact(rounded_size)
         IN  IF target_order > b.max_order THEN BuddyFailed(b)
             ELSE LET current_order == find_order(b, target_order)
                  IN  IF current_order > b.max_order THEN BuddyFailed(b)
                      ELSE LET addr == Head(b.free_lists[current_order])
                               popped == [b.free_lists EXCEPT
                                              ![current_order] = Tail(@)]
                           IN  [buddy |-> [b EXCEPT
                                    !.free_lists =
                                        split(popped, addr, current_order, target_order),
                                    !.allocated_blocks = MapPut(@, addr, target_order)],
                                ret |-> addr]

\* std::find on a free list: the position of the first x, 0 for end().
RECURSIVE list_find(_, _, _)
list_find(l, x, i) ==
    IF i > Len(l) THEN 0 ELSE IF l[i] = x THEN i ELSE list_find(l, x, i + 1)

\* The larger of the two: the merged block would start at the upper buddy.
MaxOf(a, b) == IF a < b THEN b ELSE a

\* std::min
MinOf(a, b) == IF b < a THEN b ELSE a

\* A free that never merges buddies.
coalesce_never(fl, max_order, current_addr, current_order) ==
    [fl EXCEPT ![current_order] = << current_addr >> \o @]

\* A coalescing loop that stops after the first merge.
coalesce_once(fl, max_order, current_addr, current_order) ==
    IF current_order < max_order
    THEN LET buddy_addr == BitXor(current_addr, Shl1(current_order))
             buddy_it == list_find(fl[current_order], buddy_addr, 1)
         IN  IF buddy_it = 0
             THEN [fl EXCEPT ![current_order] = << current_addr >> \o @]
             ELSE [fl EXCEPT ![current_order] = RemoveAt(@, buddy_it),
                             ![current_order + 1] =
                                 << MinOf(current_addr, buddy_addr) >> \o @]
    ELSE [fl EXCEPT ![current_order] = << current_addr >> \o @]

\* The coalescing loop of free_buddy.
RECURSIVE coalesce(_, _, _, _)
coalesce(fl, max_order, current_addr, current_order) ==
    IF current_order < max_order
    THEN LET buddy_addr == BitXor(current_addr, Shl1(current_order))
             buddy_it == list_find(fl[current_order], buddy_addr, 1)
         IN  IF buddy_it = 0
             THEN [fl EXCEPT ![current_order] = << current_addr >> \o @]
             ELSE coalesce([fl EXCEPT ![current_order] = RemoveAt(@, buddy_it)],
                           max_order, MinOf(current_addr, buddy_addr),
                           current_order + 1)
    ELSE [fl EXCEPT ![current_order] = << current_addr >> \o @]

\* BuddyAllocator::free_buddy
free_buddy(b, addr) ==
    IF addr \notin DOMAIN b.allocated_blocks THEN b
    ELSE LET order == b.allocated_blocks[addr]
         IN  [b EXCEPT
                 !.allocated_blocks = MapErase(@, addr),
                 !.free_lists = coalesce(@, b.max_order, addr, order)]

\* BuddyAllocator::allocated_memory
RECURSIVE allocated_sum(_, _)
allocated_sum(ab, keys) ==
    IF keys = {} THEN 0
    ELSE LET a == CHOOSE x \in keys : TRUE
         IN  Shl1(ab[a]) + allocated_sum(ab, keys \ {a})

allocated_memory(b) == allocated_sum(b.allocated_blocks, DOMAIN b.allocated_blocks)

\* BuddyAllocator::largest_free_block: the size of the highest order, from
\* max_order down to 1, whose free list is not empty; else 1 or 0 by order 0.
RECURSIVE largest_free_order(_, _)
largest_free_order(b, order) ==
    IF order > 0
    THEN IF b.free_lists[order] # << >> THEN Shl1(order)
         ELSE largest_free_order(b, order - 1)
    ELSE IF b.free_lists[0] = << >> THEN 0 ELSE 1

BuddyAllocator_largest_free_block(b) == largest_free_order(b, b.max_order)

\* BuddyAllocator::check_no_free_buddy_pairs
check_no_free_buddy_pairs(b) ==
    \A order \in 0..(b.max_order - 1) :
        \A i \in 1..Len(b.free_lists[order]) :
            LET buddy == BitXor(b.free_lists[order][i], Shl1(order))
            IN  \A j \in 1..Len(b.free_lists[order]) :
                    b.free_lists[order][j] # buddy

\* BuddyAllocator::check_no_overlaps: every byte of every free block is seen
\* for the first time.
check_no_overlaps(b) ==
    \A o1, o2 \in 0..b.max_order :
        \A i \in 1..Len(b.free_lists[o1]) : \A j \in 1..Len(b.free_lists[o2]) :
            (o1 # o2 \/ i # j) =>
                LET a1 == b.free_lists[o1][i]
                    a2 == b.free_lists[o2][j]
                IN  a1 + Shl1(o1) <= a2 \/ a2 + Shl1(o2) <= a1

\* The BuddyAllocator object held in the state.
buddy_ == Buddy(total_memory_, max_order_, free_lists_, allocated_blocks_)

BuddyCall(op, arg, ret) == [op |-> op, arg |-> arg, ret |-> ret]

SetBuddy(b) ==
    /\ total_memory_' = b.total_memory
    /\ max_order_' = b.max_order
    /\ free_lists_' = b.free_lists
    /\ allocated_blocks_' = b.allocated_blocks

\* The arenas explored: the powers of two 2^0 .. 2^MaxOrder.
NewBuddy ==
    \E total \in 1..Shl1(MaxOrder) :
        /\ is_power_of_two(total)
        /\ LET b == BuddyAllocator(total)
           IN  /\ total_memory_ = b.total_memory
               /\ max_order_ = b.max_order
               /\ free_lists_ = b.free_lists
               /\ allocated_blocks_ = b.allocated_blocks
        /\ buddy_call = BuddyCall("new", total, 0)
        /\ buddy_outstanding = {}
        /\ buddy_released = -1
        /\ id_to_addr_ = EmptyMap
        /\ addr_to_id_ = EmptyMap
        /\ buddy_next_id_ = 1
        /\ iface_call = BuddyCall("none", 0, 0)

IdleBuddy ==
    /\ total_memory_ = 0
    /\ max_order_ = 0
    /\ free_lists_ = << >>
    /\ allocated_blocks_ = << >>
    /\ buddy_call = BuddyCall("none", 0, 0)
    /\ buddy_outstanding = {}
    /\ buddy_released = -1
    /\ id_to_addr_ = EmptyMap
    /\ addr_to_id_ = EmptyMap
    /\ buddy_next_id_ = 0
    /\ iface_call = BuddyCall("none", 0, 0)

\* Sizes 0 .. total + 1: the rejected ones and every one that can fit.
AllocateBuddy ==
    \E size \in 0..(total_memory_ + 1) :
        /\ LET r == allocate_buddy(buddy_, size)
           IN  /\ SetBuddy(r.buddy)
               /\ buddy_call' = BuddyCall("allocate_buddy", size, r.ret)
               /\ buddy_outstanding' = IF r.ret = NoAddr THEN buddy_outstanding
                                       ELSE buddy_outstanding \cup { r.ret }
               /\ buddy_released' = -1
        /\ UNCHANGED << ifaceVars, flVars, cacheVars, hierVars, vmVars, pairVars, ctorVars >>

\* Any address of the arena, allocated or not, and one past it.
FreeBuddy ==
    \E addr \in 0..total_memory_ :
        /\ SetBuddy(free_buddy(buddy_, addr))
        /\ buddy_call' = BuddyCall("free_buddy", addr, 0)
        /\ buddy_outstanding' = buddy_outstanding \ { addr }
        /\ buddy_released' = IF addr \in DOMAIN allocated_blocks_
                             THEN allocated_blocks_[addr] ELSE -1
        /\ UNCHANGED << ifaceVars, flVars, cacheVars, hierVars, vmVars, pairVars, ctorVars >>

NextBuddy ==
    \/ AllocateBuddy
    \/ FreeBuddy

\* What a call of the IAllocator surface gives back: the allocator, the two
\* id maps and the id counter after the call, the value returned, and the
\* address passed to or returned by the buddy-specific call made inside
\* (NoAddr when none was made).
IfaceResult(b, id_to_addr, addr_to_id, nid, ret, addr) ==
    [buddy |-> b, id_to_addr |-> id_to_addr, addr_to_id |-> addr_to_id,
     next_id |-> nid, ret |-> ret, addr |-> addr]

\* BuddyAllocator::allocate: the address found by allocate_buddy is filed
\* under a new id, and the id is returned.
BuddyAllocator_allocate(b, id_to_addr, addr_to_id, nid, size) ==
    LET r == allocate_buddy(b, size)
    IN  IF r.ret = NoAddr
        THEN IfaceResult(r.buddy, id_to_addr, addr_to_id, nid, -1, NoAddr)
        ELSE IfaceResult(r.buddy, MapPut(id_to_addr, nid, r.ret),
                         MapPut(addr_to_id, r.ret, nid), nid + 1, nid, r.ret)

\* BuddyAllocator::free_block(id)
BuddyAllocator_free_block(b, id_to_addr, addr_to_id, nid, id) ==
    IF id \notin DOMAIN id_to_addr
    THEN IfaceResult(b, id_to_addr, addr_to_id, nid, 0, NoAddr)
    ELSE LET addr == id_to_addr[id]
         IN  IfaceResult(free_buddy(b, addr), MapErase(id_to_addr, id),
                         MapErase(addr_to_id, addr), nid, 0, addr)

SetIface(r) ==
    /\ SetBuddy(r.buddy)
    /\ id_to_addr_' = r.id_to_addr
    /\ addr_to_id_' = r.addr_to_id
    /\ buddy_next_id_' = r.next_id

\* allocate with sizes 0 .. total + 1, until MaxBuddyId ids were handed out.
BuddyAllocate ==
    \E size \in 0..(total_memory_ + 1) :
        /\ buddy_next_id_ <= MaxBuddyId
        /\ LET r == BuddyAllocator_allocate(buddy_, id_to_addr_, addr_to_id_,
                                            buddy_next_id_, size)
           IN  /\ SetIface(r)
               /\ iface_call' = BuddyCall("allocate", size, r.ret)
               /\ buddy_call' = BuddyCall("allocate_buddy", size, r.addr)
               /\ buddy_outstanding' = IF r.addr = NoAddr THEN buddy_outstanding
                                       ELSE buddy_outstanding \cup { r.addr }
               /\ buddy_released' = -1
        /\ UNCHANGED << flVars, cacheVars, hierVars, vmVars, pairVars, ctorVars >>

\* free_block with the sentinel, 0, every id handed out so far and one never
\* issued.
BuddyFreeBlock ==
    \E id \in -1..(MaxBuddyId + 1) :
        /\ LET r == BuddyAllocator_free_block(buddy_, id_to_addr_, addr_to_id_,
                                              buddy_next_id_, id)
           IN  /\ SetIface(r)
               /\ iface_call' = BuddyCall("free_block", id, 0)
               /\ buddy_call' = IF r.addr = NoAddr THEN buddy_call
                                ELSE BuddyCall("free_buddy", r.addr, 0)
               /\ buddy_outstanding' = buddy_outstanding \ { r.addr }
               /\ buddy_released' = IF r.addr \in DOMAIN allocated_blocks_
                                    THEN allocated_blocks_[r.addr] ELSE -1
        /\ UNCHANGED << flVars, cacheVars, hierVars, vmVars, pairVars, ctorVars >>

NextBuddyIface ==
    \/ BuddyAllocate
    \/ BuddyFreeBlock

(***************************************************************************)
(* Cache level (DirectMappedCache).                                        *)
(***************************************************************************)
\* CacheLine::CacheLine
CacheLine == [valid |-> FALSE, tag |-> 0, inserted_at |-> 0]

\* The conditions under which DirectMappedCache::DirectMappedCache throws
\* nothing.
cache_config_ok(cache_size, line_size, associativity) ==
    /\ ~(cache_size = 0 \/ line_size = 0 \/ associativity = 0)
    /\ cache_size % (line_size * associativity) = 0
    /\ is_power_of_two(line_size)
    /\ is_power_of_two(cache_size \div (line_size * associativity))

\* DirectMappedCache::DirectMappedCache, for an accepted configuration.
DirectMappedCache(cache_size, line_size, associativity) ==
    LET num_sets == cache_size \div (line_size * associativity)
    IN  [cache_size |-> cache_size, line_size |-> line_size,
         associativity |-> associativity, num_sets |-> num_sets,
         offset_bits |-> log2_exact(line_size),
         index_bits |-> log2_exact(num_sets),
         hits |-> 0, misses |-> 0, timestamp |-> 0,
         sets |-> [i \in 0..(num_sets - 1) |->
                      [w \in 1..associativity |-> CacheLine]]]

\* DirectMappedCache::decode_address
decode_address(c, physical_address) ==
    LET offset_mask == Shl1(c.offset_bits) - 1
        index_mask == Shl1(c.index_bits) - 1
    IN  [offset |-> BitAnd(physical_address, offset_mask),
         index |-> BitAnd(Shr(physical_address, c.offset_bits), index_mask),
         tag |-> Shr(physical_address, c.offset_bits + c.index_bits)]

\* A hit loop that looks at the first line of the set only.
find_line_first_way(set, tag, w) ==
    IF set[1].valid /\ set[1].tag = tag THEN 1 ELSE 0

\* The hit loop of access: the first line that is valid and carries the tag,
\* 0 when there is none.
RECURSIVE find_line(_, _, _)
find_line(set, tag, w) ==
    IF w > Len(set) THEN 0
    ELSE IF set[w].valid /\ set[w].tag = tag THEN w
    ELSE find_line(set, tag, w + 1)

\* The first invalid line of the set, 0 when every line is valid.
RECURSIVE first_invalid(_, _)
first_invalid(set, w) ==
    IF w > Len(set) THEN 0
    ELSE IF ~set[w].valid THEN w
    ELSE first_invalid(set, w + 1)

\* The scan for the smallest inserted_at, starting from victim = &set[0].
RECURSIVE oldest_line(_, _, _)
oldest_line(set, w, victim) ==
    IF w > Len(set) THEN victim
    ELSE IF set[w].inserted_at < set[victim].inserted_at
         THEN oldest_line(set, w + 1, w)
         ELSE oldest_line(set, w + 1, victim)

\* A victim choice that goes by inserted_at alone, invalid lines included.
select_victim_by_age_only(set) == oldest_line(set, 1, 1)

\* The victim of access and of fill: the first invalid line, otherwise the
\* line with the smallest inserted_at.
select_victim(set) ==
    LET inv == first_invalid(set, 1)
    IN  IF inv # 0 THEN inv ELSE oldest_line(set, 1, 1)

\* An installation that advances the clock but stamps the line with 0.
install_unstamped(c, addr) ==
    LET victim == select_victim(c.sets[addr.index])
    IN  [c EXCEPT !.sets[addr.index][victim] =
                      [valid |-> TRUE, tag |-> addr.tag, inserted_at |-> 0],
                  !.timestamp = @ + 1]

\* The installation at the end of access and of fill.
install(c, addr) ==
    LET victim == select_victim(c.sets[addr.index])
    IN  [c EXCEPT !.sets[addr.index][victim] =
                      [valid |-> TRUE, tag |-> addr.tag, inserted_at |-> c.timestamp],
                  !.timestamp = @ + 1]

\* DirectMappedCache::access
access(c, physical_address) ==
    LET addr == decode_address(c, physical_address)
    IN  IF find_line(c.sets[addr.index], addr.tag, 1) # 0
        THEN [cache |-> [c EXCEPT !.hits = @ + 1], hit |-> TRUE]
        ELSE [cache |-> install([c EXCEPT !.misses = @ + 1], addr), hit |-> FALSE]

\* A fill that counts a miss.
fill_counts_miss(c, physical_address) ==
    install([c EXCEPT !.misses = @ + 1], decode_address(c, physical_address))

\* DirectMappedCache::fill
fill(c, physical_address) == install(c, decode_address(c, physical_address))

\* The number of valid lines of a set that carry tag.
LinesWithTag(set, tag) ==
    Cardinality({ w \in 1..Len(set) : set[w].valid /\ set[w].tag = tag })

\* The accepted configurations within the bounds.
CacheConfigs ==
    { cfg \in (1..MaxCacheSize) \X (1..MaxLineSize) \X (1..MaxAssoc) :
          cache_config_ok(cfg[1], cfg[2], cfg[3]) }

Addresses == 0..MaxAddr

CacheCall(op, arg, ret) == [op |-> op, arg |-> arg, ret |-> ret]

NoHit == [index |-> -1, way |-> 0, at |-> -1]

NewCache ==
    /\ \E cfg \in CacheConfigs :
           /\ cache_ = DirectMappedCache(cfg[1], cfg[2], cfg[3])
           /\ cache_installs = [i \in DOMAIN cache_.sets |-> << >>]
    /\ cache_call = CacheCall("new", 0, FALSE)
    /\ cache_accesses = 0
    /\ cache_last_hit = NoHit

IdleCache ==
    /\ cache_ = << >>
    /\ cache_call = CacheCall("none", 0, FALSE)
    /\ cache_accesses = 0
    /\ cache_last_hit = NoHit
    /\ cache_installs = << >>

\* The calls made so far on cache_: the access hits and the installations.
CacheCalls == cache_.hits + cache_.timestamp

CacheAccess ==
    \E pa \in Addresses :
        /\ CacheCalls < MaxCacheOps
        /\ LET r == access(cache_, pa)
           IN  /\ cache_' = r.cache
               /\ cache_call' = CacheCall("access", pa, r.hit)
               /\ cache_accesses' = cache_accesses + 1
               /\ LET addr == decode_address(cache_, pa)
                  IN  IF r.hit
                      THEN /\ cache_last_hit' =
                                  [index |-> addr.index,
                                   way |-> find_line(cache_.sets[addr.index], addr.tag, 1),
                                   at |-> cache_.timestamp]
                           /\ cache_installs' = cache_installs
                      ELSE /\ cache_last_hit' = cache_last_hit
                           /\ cache_installs' =
                                  [cache_installs EXCEPT ![addr.index] = Append(@, addr.tag)]
        /\ UNCHANGED << flVars, buddyVars, hierVars, vmVars, pairVars, ctorVars >>

CacheFill ==
    \E pa \in Addresses :
        /\ CacheCalls < MaxCacheOps
        /\ cache_' = fill(cache_, pa)
        /\ cache_call' = CacheCall("fill", pa, FALSE)
        /\ cache_accesses' = cache_accesses
        /\ cache_last_hit' = cache_last_hit
        /\ cache_installs' =
               LET addr == decode_address(cache_, pa)
               IN  [cache_installs EXCEPT ![addr.index] = Append(@, addr.tag)]
        /\ UNCHANGED << flVars, buddyVars, hierVars, vmVars, pairVars, ctorVars >>

NextCache ==
    \/ CacheAccess
    \/ CacheFill

\* A cache level driven by access alone.
NextCacheAccess == CacheAccess

(***************************************************************************)
(* Cache hierarchy (CacheHierarchy).                                       *)
(***************************************************************************)
\* A refill of L2 made with access instead of fill: it counts an L2 hit.
hier_after_l1_miss_access_refill(l1, l2, physical_address) ==
    LET r2 == access(l2, physical_address)
    IN  IF r2.hit
        THEN [l1 |-> fill(l1, physical_address), l2 |-> r2.cache, hit |-> TRUE]
        ELSE [l1 |-> fill(l1, physical_address),
              l2 |-> access(r2.cache, physical_address).cache, hit |-> FALSE]

\* An L2 hit that is reported to the caller as a miss.
hier_after_l1_miss_reports_miss(l1, l2, physical_address) ==
    LET r2 == access(l2, physical_address)
    IN  IF r2.hit
        THEN [l1 |-> fill(l1, physical_address), l2 |-> r2.cache, hit |-> FALSE]
        ELSE [l1 |-> fill(l1, physical_address),
              l2 |-> fill(r2.cache, physical_address), hit |-> FALSE]

\* An L1 miss served without looking into L2.
hier_after_l1_miss_bypasses_l2(l1, l2, physical_address) ==
    [l1 |-> fill(l1, physical_address), l2 |-> l2, hit |-> FALSE]

\* The L2 lookup and the refills of CacheHierarchy::access after an L1 miss.
hier_after_l1_miss(l1, l2, physical_address) ==
    LET r2 == access(l2, physical_address)
    IN  IF r2.hit
        THEN [l1 |-> fill(l1, physical_address), l2 |-> r2.cache, hit |-> TRUE]
        ELSE [l1 |-> fill(l1, physical_address),
              l2 |-> fill(r2.cache, physical_address), hit |-> FALSE]

\* CacheHierarchy::access
hier_access(l1, l2, physical_address) ==
    LET r1 == access(l1, physical_address)
    IN  IF r1.hit
        THEN [l1 |-> r1.cache, l2 |-> l2, hit |-> TRUE]
        ELSE hier_after_l1_miss(r1.cache, l2, physical_address)

\* CacheHierarchy::CacheHierarchy: the two levels are moved in.
NewHier ==
    /\ \E c1, c2 \in CacheConfigs :
           /\ l1_ = DirectMappedCache(c1[1], c1[2], c1[3])
           /\ l2_ = DirectMappedCache(c2[1], c2[2], c2[3])
    /\ hier_call = CacheCall("new", 0, FALSE)

IdleHier ==
    /\ l1_ = << >>
    /\ l2_ = << >>
    /\ hier_call = CacheCall("none", 0, FALSE)

\* CacheHierarchy::l1_hits, l1_misses, l2_hits, l2_misses
l1_hits == l1_.hits

l1_misses == l1_.misses

l2_hits == l2_.hits

l2_misses == l2_.misses

HierAccess ==
    \E pa \in Addresses :
        /\ l1_hits + l1_misses < MaxHierOps
        /\ LET r == hier_access(l1_, l2_, pa)
           IN  /\ l1_' = r.l1
               /\ l2_' = r.l2
               /\ hier_call' = CacheCall("access", pa, r.hit)
        /\ UNCHANGED << flVars, buddyVars, cacheVars, vmVars, pairVars, ctorVars >>

NextHier == HierAccess

(***************************************************************************)
(* Virtual memory manager (VirtualMemoryManager).                          *)
(***************************************************************************)
\* VirtualMemoryManager::PageTableEntry::PageTableEntry
PageTableEntry == [valid |-> FALSE, frame_number |-> 0, loaded_at |-> 0]

\* static_cast<std::size_t>(-1): no victim found.
NoVictim == -1

\* static_cast<std::uint64_t>(-1), the start value of the victim scans; it is
\* above every loaded_at the model reaches.
U64Max == -1

\* A comparison for a scan that starts from oldest = 0: nothing is below it.
StampLess_from_zero(loaded_at, oldest) == oldest # U64Max /\ loaded_at < oldest

\* loaded_at < oldest, for oldest a timestamp or U64Max.
StampLess(loaded_at, oldest) == oldest = U64Max \/ loaded_at < oldest

\* VirtualMemoryManager::VirtualMemoryManager, for a power-of-two page size.
VirtualMemoryManager(num_virtual_pages, num_physical_frames, page_size_bytes, policy) ==
    [timestamp |-> 0,
     page_size |-> page_size_bytes,
     offset_bits |-> log2_exact(page_size_bytes),
     page_table |-> [vpn \in 0..(num_virtual_pages - 1) |-> PageTableEntry],
     frame_free |-> [f \in 0..(num_physical_frames - 1) |-> TRUE],
     page_faults |-> 0,
     replacement_policy |-> policy]

\* page_table_.size() and frame_free_.size()
NumPages(vm) == Cardinality(DOMAIN vm.page_table)

NumFrames(vm) == Cardinality(DOMAIN vm.frame_free)

\* A vpn decoding that wraps around the end of the page table.
decode_vpn_wraps(vm, virtual_address) ==
    Shr(virtual_address, vm.offset_bits) % NumPages(vm)

\* VirtualMemoryManager::decode_vpn
decode_vpn(vm, virtual_address) == Shr(virtual_address, vm.offset_bits)

\* An offset decoding that drops the offset.
decode_offset_zero(vm, virtual_address) == 0

\* VirtualMemoryManager::decode_offset
decode_offset(vm, virtual_address) ==
    BitAnd(virtual_address, Shl1(vm.offset_bits) - 1)

\* A frame search that does not look at the bitmap.
first_free_frame_unchecked(vm, i) == IF i >= NumFrames(vm) THEN -1 ELSE i

\* A frame search that runs from the last frame down.
RECURSIVE last_free_scan(_, _)
last_free_scan(vm, i) ==
    IF i < 0 THEN -1
    ELSE IF vm.frame_free[i] THEN i
    ELSE last_free_scan(vm, i - 1)

last_free_frame(vm, i) == last_free_scan(vm, NumFrames(vm) - 1)

\* The free-frame loop of translate: the lowest free frame from i on, -1
\* when there is none.
RECURSIVE first_free_frame(_, _)
first_free_frame(vm, i) ==
    IF i >= NumFrames(vm) THEN -1
    ELSE IF vm.frame_free[i] THEN i
    ELSE first_free_frame(vm, i + 1)

\* The scan shared by the two victim searches: the first valid entry with the
\* smallest loaded_at.
RECURSIVE victim_scan(_, _, _, _)
victim_scan(vm, i, victim, oldest) ==
    IF i >= NumPages(vm) THEN victim
    ELSE IF vm.page_table[i].valid /\ StampLess(vm.page_table[i].loaded_at, oldest)
         THEN victim_scan(vm, i + 1, i, vm.page_table[i].loaded_at)
         ELSE victim_scan(vm, i + 1, victim, oldest)

\* A victim search that keeps the valid entry with the largest loaded_at.
RECURSIVE newest_scan(_, _, _, _)
newest_scan(vm, i, victim, newest) ==
    IF i >= NumPages(vm) THEN victim
    ELSE IF vm.page_table[i].valid /\ vm.page_table[i].loaded_at > newest
         THEN newest_scan(vm, i + 1, i, vm.page_table[i].loaded_at)
         ELSE newest_scan(vm, i + 1, victim, newest)

find_newest_page(vm) == newest_scan(vm, 0, NoVictim, -1)

\* VirtualMemoryManager::find_fifo_victim_page
find_fifo_victim_page(vm) == victim_scan(vm, 0, NoVictim, U64Max)

\* VirtualMemoryManager::find_lru_victim_page
find_lru_victim_page(vm) == victim_scan(vm, 0, NoVictim, U64Max)

\* An eviction that leaves the victim's entry valid.
evict_keeps_valid(page_table, victim_vpn) == page_table

\* victim_pte.valid = false
evict(page_table, victim_vpn) == [page_table EXCEPT ![victim_vpn].valid = FALSE]

\* A translate whose hit path counts a page fault as well.
Translated_counts_hit(vm, ret, error, page_fault, victim_vpn) ==
    [vm |-> IF error = "none" /\ ~page_fault
            THEN [vm EXCEPT !.page_faults = @ + 1] ELSE vm,
     ret |-> ret, error |-> error, page_fault |-> page_fault,
     victim_vpn |-> victim_vpn]

\* A translate whose hit path advances the clock.
Translated_hit_ticks(vm, ret, error, page_fault, victim_vpn) ==
    [vm |-> IF error = "none" /\ ~page_fault
            THEN [vm EXCEPT !.timestamp = @ + 1] ELSE vm,
     ret |-> ret, error |-> error, page_fault |-> page_fault,
     victim_vpn |-> victim_vpn]

\* What a translate call gives back: the manager after the call, the value
\* returned (or -1 with the exception thrown), and the locals page_fault and
\* victim_vpn.
Translated(vm, ret, error, page_fault, victim_vpn) ==
    [vm |-> vm, ret |-> ret, error |-> error, page_fault |-> page_fault,
     victim_vpn |-> victim_vpn]

\* A stamping that takes the clock under either policy.
stamp_either_policy(vm, vpn, page_fault) ==
    [vm EXCEPT !.page_table[vpn].loaded_at = vm.timestamp, !.timestamp = @ + 1]

\* The stamping at the end of the fault path: under FIFO loaded_at takes the
\* clock and the clock advances; the LRU branch asks for page_fault to be
\* false, which it never is here.
stamp(vm, vpn, page_fault) ==
    IF vm.replacement_policy = "FIFO"
    THEN [vm EXCEPT !.page_table[vpn].loaded_at = vm.timestamp, !.timestamp = @ + 1]
    ELSE IF ~page_fault /\ vm.replacement_policy = "LRU"
    THEN [vm EXCEPT !.page_table[vpn].loaded_at = vm.timestamp, !.timestamp = @ + 1]
    ELSE vm

\* pte.frame_number = frame; pte.valid = true; then the stamping.
load_page(vm, vpn, frame) ==
    stamp([vm EXCEPT !.page_table[vpn].frame_number = frame,
                     !.page_table[vpn].valid = TRUE], vpn, TRUE)

\* VirtualMemoryManager::translate
translate(vm, virtual_address) ==
    LET vpn == decode_vpn(vm, virtual_address)
        offset == decode_offset(vm, virtual_address)
    IN  IF vpn >= NumPages(vm)
        THEN Translated(vm, -1, "out_of_range", FALSE, NoVictim)
        ELSE IF vm.page_table[vpn].valid
        THEN Translated(vm, vm.page_table[vpn].frame_number * vm.page_size + offset,
                        "none", FALSE, NoVictim)
        ELSE LET faulted == [vm EXCEPT !.page_faults = @ + 1]
                 free == first_free_frame(faulted, 0)
             IN  IF free # -1
                 THEN LET done == load_page([faulted EXCEPT !.frame_free[free] = FALSE],
                                            vpn, free)
                      IN  Translated(done,
                                     done.page_table[vpn].frame_number * done.page_size
                                         + offset,
                                     "none", TRUE, NoVictim)
                 ELSE LET victim_vpn ==
                              IF faulted.replacement_policy = "FIFO"
                              THEN find_fifo_victim_page(faulted)
                              ELSE find_lru_victim_page(faulted)
                      IN  IF victim_vpn = NoVictim
                          THEN \* page_table_[-1]: no frame and no valid page
                               Translated(faulted, -1, "undefined", TRUE, NoVictim)
                          ELSE LET frame == faulted.page_table[victim_vpn].frame_number
                                   done == load_page(
                                       [faulted EXCEPT !.page_table =
                                           evict(@, victim_vpn)], vpn, frame)
                               IN  Translated(done,
                                       done.page_table[vpn].frame_number * done.page_size
                                           + offset,
                                       "none", TRUE, victim_vpn)

\* VirtualMemoryManager::page_faults
page_faults(vm) == vm.page_faults

\* The dimensions explored: (pages, frames, page size), page size a power of two.
VMConfigs ==
    { cfg \in (1..MaxPages) \X (1..MaxFrames) \X (1..MaxPageSize) :
          is_power_of_two(cfg[3]) }

Policies == { "FIFO", "LRU" }

\* Virtual addresses: every address of the largest page table and one page
\* beyond it.
VAddresses == 0..(MaxPages * MaxPageSize)

VMCall(va, r) ==
    [va |-> va, ret |-> r.ret, error |-> r.error, page_fault |-> r.page_fault,
     victim_vpn |-> r.victim_vpn]

NoCall == [ret |-> -1, error |-> "none", page_fault |-> FALSE, victim_vpn |-> NoVictim]

NewVM ==
    /\ \E cfg \in VMConfigs : \E policy \in Policies :
           vm_ = VirtualMemoryManager(cfg[1], cfg[2], cfg[3], policy)
    /\ vm_call = VMCall(-1, NoCall)
    /\ vm_loads = << >>
    /\ vm_load_call = EmptyMap

IdleVM ==
    /\ vm_ = << >>
    /\ vm_call = VMCall(-1, NoCall)
    /\ vm_loads = << >>
    /\ vm_load_call = EmptyMap

Translate ==
    \E va \in VAddresses :
        /\ vm_.page_faults < MaxFaults
        /\ LET r == translate(vm_, va)
           IN  /\ vm_' = r.vm
               /\ vm_call' = VMCall(va, r)
               /\ vm_loads' = IF r.page_fault
                              THEN Append(vm_loads, decode_vpn(vm_, va))
                              ELSE vm_loads
               /\ vm_load_call' = IF r.page_fault
                                  THEN MapPut(vm_load_call, decode_vpn(vm_, va),
                                              [va |-> va, ret |-> r.ret])
                                  ELSE vm_load_call
        /\ UNCHANGED << flVars, buddyVars, cacheVars, hierVars, pairVars, ctorVars >>

NextVM == Translate

\* Two managers of the same dimensions, one FIFO and one LRU, given the same
\* translate calls.
PairCall(va, rf, rl) ==
    [va |-> va, fifo |-> VMCall(va, rf), lru |-> VMCall(va, rl)]

NewPair ==
    /\ \E cfg \in VMConfigs :
           /\ vm_fifo = VirtualMemoryManager(cfg[1], cfg[2], cfg[3], "FIFO")
           /\ vm_lru = VirtualMemoryManager(cfg[1], cfg[2], cfg[3], "LRU")
    /\ pair_call = PairCall(-1, NoCall, NoCall)

IdlePair ==
    /\ vm_fifo = << >>
    /\ vm_lru = << >>
    /\ pair_call = PairCall(-1, NoCall, NoCall)

TranslateBoth ==
    \E va \in VAddresses :
        /\ vm_fifo.page_faults < MaxFaults
        /\ vm_lru.page_faults < MaxFaults
        /\ LET rf == translate(vm_fifo, va)
               rl == translate(vm_lru, va)
           IN  /\ vm_fifo' = rf.vm
               /\ vm_lru' = rl.vm
               /\ pair_call' = PairCall(va, rf, rl)
        /\ UNCHANGED << flVars, buddyVars, cacheVars, hierVars, vmVars, ctorVars >>

NextPair == TranslateBoth

(***************************************************************************)
(* Construction of the engines.                                            *)
(***************************************************************************)
CtorCall(engine, args, outcome, instance) ==
    [engine |-> engine, args |-> args, outcome |-> outcome, instance |-> instance]

IdleCtor == ctor_call = CtorCall("none", << >>, "none", << >>)

\* PhysicalMemory::PhysicalMemory throws nothing.
physical_memory_config_ok(total_size) == TRUE

\* BuddyAllocator::BuddyAllocator throws unless the total is a power of two.
buddy_config_ok(total_memory) == is_power_of_two(total_memory)

\* VirtualMemoryManager::VirtualMemoryManager throws unless the page size is
\* a power of two; the two counts are not looked at.
vm_config_ok(num_virtual_pages, num_physical_frames, page_size_bytes) ==
    is_power_of_two(page_size_bytes)

\* Whether the constructor of the engine returns for these arguments.
config_ok(engine, args) ==
    CASE engine = "PhysicalMemory" -> physical_memory_config_ok(args[1])
      [] engine = "BuddyAllocator" -> buddy_config_ok(args[1])
      [] engine = "DirectMappedCache" -> cache_config_ok(args[1], args[2], args[3])
      [] engine = "VirtualMemoryManager" -> vm_config_ok(args[1], args[2], args[3])

\* The object the constructor leaves behind.
construct(engine, args) ==
    CASE engine = "PhysicalMemory" -> PhysicalMemory(args[1])
      [] engine = "BuddyAllocator" -> BuddyAllocator(args[1])
      [] engine = "DirectMappedCache" -> DirectMappedCache(args[1], args[2], args[3])
      [] engine = "VirtualMemoryManager" ->
             VirtualMemoryManager(args[1], args[2], args[3], "FIFO")

\* The constructor calls explored: every dimension from 0 up to its bound.
CtorRequests ==
    ({ "PhysicalMemory" } \X { << n >> : n \in 0..MaxTotalSize })
    \cup ({ "BuddyAllocator" } \X { << n >> : n \in 0..Shl1(MaxOrder) })
    \cup ({ "DirectMappedCache" }
             \X ((0..MaxCacheSize) \X (0..MaxLineSize) \X (0..MaxAssoc)))
    \cup ({ "VirtualMemoryManager" }
             \X ((0..MaxPages) \X (0..MaxFrames) \X (0..MaxPageSize)))

NewCtor ==
    \E req \in CtorRequests : ctor_call = CtorCall(req[1], req[2], "pending", << >>)

\* The constructor runs: it throws, or it leaves an instance.
Construct ==
    /\ ctor_call.outcome = "pending"
    /\ ctor_call' =
           IF config_ok(ctor_call.engine, ctor_call.args)
           THEN CtorCall(ctor_call.engine, ctor_call.args, "instance",
                         construct(ctor_call.engine, ctor_call.args))
           ELSE CtorCall(ctor_call.engine, ctor_call.args, "rejected", << >>)
    /\ UNCHANGED << flVars, buddyVars, cacheVars, hierVars, vmVars, pairVars >>

NextConfig == Construct

(***************************************************************************)
(* Specifications: one engine is instantiated and driven by its public     *)
(* operations; the others stay idle.                                       *)
(***************************************************************************)
InitFL == NewFL /\ IdleBuddy /\ IdleCache /\ IdleHier /\ IdleVM /\ IdlePair /\ IdleCtor

SpecFL == InitFL /\ [][NextFL]_vars

InitBuddy == IdleFL /\ NewBuddy /\ IdleCache /\ IdleHier /\ IdleVM /\ IdlePair /\ IdleCtor

SpecBuddy == InitBuddy /\ [][NextBuddy]_vars

\* The buddy allocator driven through its IAllocator surface.
SpecBuddyIface == InitBuddy /\ [][NextBuddyIface]_vars

InitCache == IdleFL /\ IdleBuddy /\ NewCache /\ IdleHier /\ IdleVM /\ IdlePair /\ IdleCtor

SpecCache == InitCache /\ [][NextCache]_vars

SpecCacheAccess == InitCache /\ [][NextCacheAccess]_vars

InitHier == IdleFL /\ IdleBuddy /\ IdleCache /\ NewHier /\ IdleVM /\ IdlePair /\ IdleCtor

SpecHier == InitHier /\ [][NextHier]_vars

InitVM == IdleFL /\ IdleBuddy /\ IdleCache /\ IdleHier /\ NewVM /\ IdlePair /\ IdleCtor

SpecVM == InitVM /\ [][NextVM]_vars

InitPair == IdleFL /\ IdleBuddy /\ IdleCache /\ IdleHier /\ IdleVM /\ NewPair /\ IdleCtor

SpecVMPair == InitPair /\ [][NextPair]_vars

InitConfig ==
    IdleFL /\ IdleBuddy /\ IdleCache /\ IdleHier /\ IdleVM /\ IdlePair /\ NewCtor

SpecConfig == InitConfig /\ [][NextConfig]_vars

(***************************************************************************)
(* C1: the block list is address-ordered and tiles the arena exactly: the  *)
(* first block starts at 0, every block starts where its predecessor ends, *)
(* and the block sizes add up to total_size.                               *)
(***************************************************************************)
C1_BlocksTileArena ==
    /\ Len(blocks_) >= 1
    /\ blocks_[1].start = 0
    /\ \A i \in 2..Len(blocks_) :
           blocks_[i].start = blocks_[i - 1].start + blocks_[i - 1].size
    /\ SumSizes(blocks_) = total_size_

\* A split, a free with both merges and a second split have happened: an
\* allocated block lies between two other blocks after a free_block call.
C1_Witness ==
    /\ Len(blocks_) >= 3
    /\ \E i \in 2..(Len(blocks_) - 1) : ~blocks_[i].free /\ blocks_[i].start > 0
    /\ \E i \in 1..Len(blocks_) : blocks_[i].free
    /\ fl_call.op = "free_block"
    /\ next_id_ > 3

(***************************************************************************)
(* C2: no two blocks adjacent in the block list are both free.             *)
(***************************************************************************)
C2_NoAdjacentFree ==
    \A i \in 1..(Len(blocks_) - 1) : ~(blocks_[i].free /\ blocks_[i + 1].free)

\* free_block has just merged a block with a free predecessor and a free
\* successor: the whole arena is one free block again after three ids.
C2_Witness ==
    /\ fl_call.op = "free_block"
    /\ fl_call.arg = 2
    /\ next_id_ = 4
    /\ Len(blocks_) = 1
    /\ blocks_[1].free

(***************************************************************************)
(* C3: the free regions (address a at order k covers [a, a + 2^k)) and the *)
(* allocated regions of the allocated map are pairwise disjoint and their  *)
(* union is exactly [0, total).                                            *)
(***************************************************************************)
\* The number of regions, free or allocated, that cover byte x.
FreeCover(x) ==
    Cardinality({ << k, i >> \in (0..max_order_) \X (1..total_memory_) :
                     /\ i <= Len(free_lists_[k])
                     /\ free_lists_[k][i] <= x
                     /\ x < free_lists_[k][i] + Shl1(k) })

AllocCover(x) ==
    Cardinality({ a \in DOMAIN allocated_blocks_ :
                     a <= x /\ x < a + Shl1(allocated_blocks_[a]) })

C3_RegionsPartitionArena ==
    /\ \A x \in 0..(total_memory_ - 1) : FreeCover(x) + AllocCover(x) = 1
    /\ \A k \in 0..max_order_ : \A i \in 1..Len(free_lists_[k]) :
           free_lists_[k][i] >= 0 /\ free_lists_[k][i] + Shl1(k) <= total_memory_
    /\ \A a \in DOMAIN allocated_blocks_ :
           a >= 0 /\ a + Shl1(allocated_blocks_[a]) <= total_memory_

\* After splits over two orders, free_buddy has put a block back on a free
\* list while another block is still allocated, and free blocks of two
\* different orders exist.
C3_Witness ==
    /\ buddy_call.op = "free_buddy"
    /\ DOMAIN allocated_blocks_ # {}
    /\ \E k \in 0..max_order_ : \E i \in 1..Len(free_lists_[k]) :
           free_lists_[k][i] = buddy_call.arg
    /\ \E k \in 1..max_order_ : free_lists_[k] # << >> /\ free_lists_[0] # << >>

(***************************************************************************)
(* C4: no order k < max_order has both an address and its buddy            *)
(* (address XOR 2^k) on its free list: check_no_free_buddy_pairs is true.  *)
(***************************************************************************)
C4_NoFreeBuddyPairs ==
    /\ \A k \in 0..(max_order_ - 1) :
           \A i, j \in 1..Len(free_lists_[k]) :
               LET a == free_lists_[k][i]
                   c == free_lists_[k][j]
               IN  ~(a % Shl1(k + 1) = 0 /\ c = a + Shl1(k))
    /\ check_no_free_buddy_pairs(buddy_)

\* The buddy of a block that is being freed is allocated: the freed block
\* stays on the free list of its order, next to another free block of the
\* same order that is not its buddy.
C4_Witness ==
    /\ buddy_call.op = "free_buddy"
    /\ \E k \in 0..(max_order_ - 1) : Len(free_lists_[k]) >= 2

(***************************************************************************)
(* C5: after any sequence of access and fill calls on a cache of any       *)
(* associativity, no set contains two valid lines with the same tag.       *)
(***************************************************************************)
C5_DistinctTagsInSet ==
    \A i \in DOMAIN cache_.sets :
        \A w1, w2 \in 1..cache_.associativity :
            (w1 # w2 /\ cache_.sets[i][w1].valid /\ cache_.sets[i][w2].valid)
                => cache_.sets[i][w1].tag # cache_.sets[i][w2].tag

(***************************************************************************)
(* C6: two successive fill calls with the same address leave exactly one   *)
(* valid line with that tag in the selected set.                           *)
(***************************************************************************)
C6_FillIdempotent ==
    [][(cache_call.op = "fill" /\ cache_call'.op = "fill"
            /\ cache_call'.arg = cache_call.arg)
        => LET addr == decode_address(cache_', cache_call'.arg)
           IN  LinesWithTag(cache_'.sets[addr.index], addr.tag) = 1]_vars

(***************************************************************************)
(* C7: after any sequence of CacheHierarchy::access calls,                 *)
(* l2_hits + l2_misses = l1_misses.                                        *)
(***************************************************************************)
C7_L2AccessesAreL1Misses == l2_hits + l2_misses = l1_misses

\* The three outcomes of access have all happened: an L1 hit, an L1 miss
\* served by L2, and a miss of both levels.
C7_Witness ==
    /\ hier_call.op = "access"
    /\ l1_hits >= 1
    /\ l2_hits >= 1
    /\ l2_misses >= 1

(***************************************************************************)
(* C8: no two valid page-table entries hold the same frame_number, and the *)
(* frame of every valid entry is marked in use in the frame bitmap.        *)
(***************************************************************************)
ValidPages(vm) == { vpn \in DOMAIN vm.page_table : vm.page_table[vpn].valid }

C8_FramesExclusive ==
    /\ \A v1, v2 \in ValidPages(vm_) :
           v1 # v2 => vm_.page_table[v1].frame_number # vm_.page_table[v2].frame_number
    /\ \A v \in ValidPages(vm_) :
           /\ vm_.page_table[v].frame_number \in DOMAIN vm_.frame_free
           /\ ~vm_.frame_free[vm_.page_table[v].frame_number]

\* An eviction has just handed a frame over while two pages are resident.
C8_Witness ==
    /\ vm_call.victim_vpn # NoVictim
    /\ Cardinality(ValidPages(vm_)) >= 2
    /\ vm_.page_faults >= 4

(***************************************************************************)
(* C9: under FIFO, when a page fault finds no free frame, the evicted page *)
(* is the valid entry with the smallest loaded_at, which is the resident   *)
(* page whose most recent load happened earliest; so with N frames,        *)
(* loading vpns 0, 1, .., N evicts vpn 0, and a following translate of     *)
(* vpn 0 faults.                                                           *)
(***************************************************************************)
\* The position in the load history of the most recent load of vpn.
LastLoad(loads, vpn) ==
    CHOOSE i \in 1..Len(loads) :
        loads[i] = vpn /\ \A j \in (i + 1)..Len(loads) : loads[j] # vpn

\* The load history is 0, 1, .., N for a FIFO manager with N frames.
LoadedZeroToN(vm, loads) ==
    /\ vm.replacement_policy = "FIFO"
    /\ Len(loads) = NumFrames(vm) + 1
    /\ \A i \in 1..Len(loads) : loads[i] = i - 1

\* Every eviction under FIFO takes the valid entry with the smallest
\* loaded_at, which is the resident page loaded earliest.
C9_EvictionStep ==
    (vm_.replacement_policy = "FIFO" /\ vm_call'.victim_vpn # NoVictim /\ vm_' # vm_)
        => LET victim == vm_call'.victim_vpn
           IN  /\ victim \in ValidPages(vm_)
               /\ \A u \in ValidPages(vm_) :
                      /\ vm_.page_table[victim].loaded_at <= vm_.page_table[u].loaded_at
                      /\ LastLoad(vm_loads, victim) <= LastLoad(vm_loads, u)
               /\ victim \notin ValidPages(vm_')
               /\ first_free_frame(vm_, 0) = -1

\* The load of vpn N after 0, .., N - 1 evicts vpn 0.
C9_LoadOfNStep ==
    (LoadedZeroToN(vm_', vm_loads') /\ vm_loads' # vm_loads)
        => vm_call'.victim_vpn = 0

\* A translate of vpn 0 that follows the loads 0, .., N faults.
C9_RetranslateStep ==
    (LoadedZeroToN(vm_, vm_loads) /\ vm_call' # vm_call
        /\ decode_vpn(vm_, vm_call'.va) = 0)
        => /\ vm_call'.page_fault
           /\ vm_'.page_faults = NumFrames(vm_) + 2

C9_FifoEvictsOldest ==
    /\ [](LoadedZeroToN(vm_, vm_loads) =>
              /\ 0 \notin ValidPages(vm_)
              /\ ValidPages(vm_) = 1..NumFrames(vm_))
    /\ [][C9_EvictionStep /\ C9_LoadOfNStep /\ C9_RetranslateStep]_vars

\* With two frames, vpns 0, 1, 2 were loaded and vpn 0 then faulted again,
\* evicting vpn 1.
C9_Witness ==
    /\ vm_.replacement_policy = "FIFO"
    /\ NumFrames(vm_) = 2
    /\ vm_loads = << 0, 1, 2, 0 >>
    /\ vm_call.page_fault
    /\ vm_call.victim_vpn = 1

(***************************************************************************)
(* C10: a manager constructed with LRU returns the same physical addresses *)
(* and the same page_faults count, and evicts the same victims, as a       *)
(* manager of the same dimensions constructed with FIFO, on every sequence *)
(* of translate calls.                                                     *)
(***************************************************************************)
C10_LruDegeneratesToFifo ==
    /\ pair_call.lru.ret = pair_call.fifo.ret
    /\ pair_call.lru.error = pair_call.fifo.error
    /\ pair_call.lru.victim_vpn = pair_call.fifo.victim_vpn
    /\ page_faults(vm_lru) = page_faults(vm_fifo)

(***************************************************************************)
(* C11: every successful translate(va) returns pa with                     *)
(* pa mod page_size = va mod page_size, and pa div page_size is the        *)
(* frame_number held after the call by the page-table entry of             *)
(* vpn = va div page_size.                                                 *)
(***************************************************************************)
C11_TranslatePreservesOffset ==
    (vm_call.va >= 0 /\ vm_call.error = "none")
        => /\ vm_call.ret % vm_.page_size = vm_call.va % vm_.page_size
           /\ (vm_call.va \div vm_.page_size) \in DOMAIN vm_.page_table
           /\ vm_call.ret \div vm_.page_size =
                  vm_.page_table[vm_call.va \div vm_.page_size].frame_number

\* A translate with a nonzero offset has faulted and was given the frame of
\* an evicted page, a frame other than frame 0.
C11_Witness ==
    /\ vm_call.error = "none"
    /\ vm_call.page_fault
    /\ vm_call.victim_vpn # NoVictim
    /\ vm_call.va % vm_.page_size # 0
    /\ vm_call.ret \div vm_.page_size # 0

(***************************************************************************)
(* C12: a translate of an address whose vpn is resident returns the        *)
(* physical address that the translate which loaded the vpn returned (for  *)
(* the same offset; for another offset, the same page base) and leaves     *)
(* page_faults as it was, for as long as the vpn has not been evicted.     *)
(***************************************************************************)
C12_ResidentStep ==
    LET va == vm_call'.va
        vpn == va \div vm_.page_size
        load == vm_load_call[vpn]
    IN  (vm_call' # vm_call /\ va >= 0 /\ vpn \in ValidPages(vm_))
            => /\ vm_call'.error = "none"
               /\ ~vm_call'.page_fault
               /\ page_faults(vm_') = page_faults(vm_)
               /\ (va % vm_.page_size = load.va % vm_.page_size
                      => vm_call'.ret = load.ret)
               /\ vm_call'.ret - (va % vm_.page_size)
                      = load.ret - (load.va % vm_.page_size)

C12_ResidentTranslateIsStable ==
    /\ [](ValidPages(vm_) \subseteq DOMAIN vm_load_call)
    /\ [][C12_ResidentStep]_vars

\* A resident page is translated again, with the address that loaded it,
\* after other pages were evicted; it sits in a frame other than frame 0.
C12_Witness ==
    /\ vm_call.va >= 0
    /\ vm_call.error = "none"
    /\ ~vm_call.page_fault
    /\ page_faults(vm_) > NumFrames(vm_)
    /\ (vm_call.va \div vm_.page_size) \in DOMAIN vm_load_call
    /\ vm_load_call[vm_call.va \div vm_.page_size].va = vm_call.va
    /\ vm_call.ret = vm_load_call[vm_call.va \div vm_.page_size].ret
    /\ vm_call.ret \div vm_.page_size # 0

(***************************************************************************)
(* C13: translate(va) with va div page_size >= num_virtual_pages signals   *)
(* the out-of-range error and leaves the page table, the frame bitmap, the *)
(* timestamp and page_faults unchanged.                                    *)
(***************************************************************************)
C13_OutOfRangeStep ==
    (vm_call' # vm_call /\ vm_call'.va >= 0
        /\ vm_call'.va \div vm_.page_size >= NumPages(vm_))
        => /\ vm_call'.error = "out_of_range"
           /\ vm_'.page_table = vm_.page_table
           /\ vm_'.frame_free = vm_.frame_free
           /\ vm_'.timestamp = vm_.timestamp
           /\ page_faults(vm_') = page_faults(vm_)

C13_OutOfRangeLeavesState ==
    /\ []((vm_call.va >= 0 /\ vm_call.va \div vm_.page_size >= NumPages(vm_))
              => vm_call.error = "out_of_range")
    /\ [][C13_OutOfRangeStep]_vars

\* The first address past the page table is translated while pages are
\* resident and an eviction has happened.
C13_Witness ==
    /\ vm_call.error = "out_of_range"
    /\ vm_call.va = NumPages(vm_) * vm_.page_size
    /\ page_faults(vm_) > NumFrames(vm_)
    /\ Cardinality(ValidPages(vm_)) >= 2
    /\ vm_.timestamp >= 3

(***************************************************************************)
(* C14: when no free block has size >= the request, allocate_first_fit,    *)
(* allocate_best_fit and allocate_worst_fit return -1 and leave the block  *)
(* list and the id counter unchanged; a successful allocation gets the id  *)
(* it would have got without the failed calls before it.                   *)
(***************************************************************************)
AllocOps == { "allocate_first_fit", "allocate_best_fit", "allocate_worst_fit" }

NoBlockFits(bl, size) == \A i \in 1..Len(bl) : ~(bl[i].free /\ bl[i].size >= size)

C14_FailedAllocationStep ==
    (fl_call'.op \in AllocOps /\ NoBlockFits(blocks_, fl_call'.arg))
        => /\ fl_call'.ret = -1
           /\ blocks_' = blocks_
           /\ next_id_' = next_id_

C14_NextIdStep ==
    (fl_call'.op \in AllocOps /\ fl_call'.ret # -1)
        => fl_call'.ret = Len(fl_issued) + 1

C14_FailedAllocationLeavesState ==
    [][C14_FailedAllocationStep /\ C14_NextIdStep]_vars

\* A request no larger than the arena fails because of fragmentation, after
\* two allocations succeeded and while a free block exists.
C14_Witness ==
    /\ fl_call.op \in AllocOps
    /\ fl_call.ret = -1
    /\ fl_call.arg >= 1
    /\ fl_call.arg <= total_size_
    /\ Len(fl_issued) >= 2
    /\ \E i \in 1..Len(blocks_) : blocks_[i].free /\ blocks_[i].size >= 1
    /\ next_id_ = Len(fl_issued) + 1

(***************************************************************************)
(* C15: free_block(id) with an id that is not the id of a currently        *)
(* allocated block (never issued, already freed, or the sentinel -1)       *)
(* leaves the whole block list unchanged; a second free_block of the same  *)
(* id is a no-op.                                                          *)
(***************************************************************************)
AllocatedIds(bl) == { bl[i].id : i \in { j \in 1..Len(bl) : ~bl[j].free } }

C15_UnknownIdStep ==
    (fl_call'.op = "free_block"
        /\ \/ fl_call'.arg \notin AllocatedIds(blocks_)
           \/ fl_call'.arg \notin Range(fl_issued)
           \/ fl_call'.arg \in fl_freed
           \/ fl_call'.arg = NoId)
        => /\ blocks_' = blocks_
           /\ next_id_' = next_id_

C15_FreeUnknownIdIsNoOp == [][C15_UnknownIdStep]_vars

\* An id is passed to free_block for the second time, after the space it
\* gave back was allocated again: no block of the list is free.
C15_Witness ==
    /\ fl_call.op = "free_block"
    /\ fl_call.arg \in fl_freed
    /\ Len(blocks_) >= 2
    /\ \A i \in 1..Len(blocks_) : ~blocks_[i].free /\ blocks_[i].size >= 1

(***************************************************************************)
(* C16: every successful allocation returns an id strictly greater than    *)
(* every id returned before it; ids start at 1 and are never reused, also  *)
(* after the block is freed, so all allocated blocks carry pairwise        *)
(* distinct ids.                                                           *)
(***************************************************************************)
C16_IdsIncrease ==
    /\ \A i, j \in 1..Len(fl_issued) : i < j => fl_issued[i] < fl_issued[j]
    /\ Len(fl_issued) >= 1 => fl_issued[1] = 1
    /\ \A id \in Range(fl_issued) : id < next_id_
    /\ \A i, j \in 1..Len(blocks_) :
           (i # j /\ ~blocks_[i].free /\ ~blocks_[j].free)
               => blocks_[i].id # blocks_[j].id
    /\ AllocatedIds(blocks_) \subseteq Range(fl_issued) \ fl_freed

\* The space of a freed block was allocated again under a new id: the
\* block at address 0 carries the third id while the first id is freed.
C16_Witness ==
    /\ fl_call.op \in AllocOps
    /\ fl_call.ret = 3
    /\ 1 \in fl_freed
    /\ ~blocks_[1].free /\ blocks_[1].id = 3 /\ blocks_[1].size >= 1
    /\ \E i \in 2..Len(blocks_) : ~blocks_[i].free /\ blocks_[i].id = 2

(***************************************************************************)
(* C17: for any strategy and any sequence of successful allocations, once  *)
(* free_block has been called for every returned id, in any order,         *)
(* used_memory = 0, largest_free_block = total and the block list is the   *)
(* single free block [0, total).                                           *)
(***************************************************************************)
C17_FreeAllRestoresArena ==
    (Len(fl_issued) >= 1 /\ Range(fl_issued) \subseteq fl_freed)
        => /\ used_memory(blocks_) = 0
           /\ largest_free_block(blocks_) = total_size_
           /\ blocks_ = << MemoryBlock(0, total_size_, TRUE, NoId) >>

\* Three blocks were allocated and all three were freed, the first one last.
C17_Witness ==
    /\ Len(fl_issued) = 3
    /\ Range(fl_issued) \subseteq fl_freed
    /\ fl_call.op = "free_block"
    /\ fl_call.arg = 1
    /\ used_memory(blocks_) = 0

(***************************************************************************)
(* C18: once every outstanding allocation has been freed, in any order,    *)
(* the free lists hold exactly one entry, address 0 at order max_order,    *)
(* the allocated map is empty, allocated = 0 and                           *)
(* largest_free_block = total.                                             *)
(***************************************************************************)
C18_FreeAllRestoresBuddy ==
    buddy_outstanding = {}
        => /\ free_lists_[max_order_] = << 0 >>
           /\ \A k \in 0..(max_order_ - 1) : free_lists_[k] = << >>
           /\ DOMAIN allocated_blocks_ = {}
           /\ allocated_memory(buddy_) = 0
           /\ BuddyAllocator_largest_free_block(buddy_) = total_memory_

\* The last outstanding block, one byte at address 1 of a 4-byte arena, has
\* been freed and merged up through two orders.
C18_Witness ==
    /\ buddy_outstanding = {}
    /\ buddy_call.op = "free_buddy"
    /\ buddy_call.arg = 1
    /\ buddy_released = 0
    /\ max_order_ = 2

(***************************************************************************)
(* C19: allocate_buddy(size) returns the failure sentinel when size = 0,   *)
(* when size > total, or when every free list at order >= ceil(log2(size)) *)
(* is empty; in each of these cases the free lists and the allocated map   *)
(* are unchanged.                                                          *)
(***************************************************************************)
\* ceil(log2(size)) for size >= 1: the least k with 2^k >= size.
CeilLog2(size) ==
    CHOOSE k \in 0..size : Shl1(k) >= size /\ \A j \in 0..(k - 1) : Shl1(j) < size

C19_FailureStep ==
    LET size == buddy_call'.arg
    IN  (buddy_call'.op = "allocate_buddy"
            /\ \/ size = 0
               \/ size > total_memory_
               \/ \A k \in 0..max_order_ :
                      k >= CeilLog2(size) => free_lists_[k] = << >>)
            => /\ buddy_call'.ret = NoAddr
               /\ free_lists_' = free_lists_
               /\ allocated_blocks_' = allocated_blocks_

C19_FailedBuddyAllocationLeavesState == [][C19_FailureStep]_vars

\* A request that fits the arena fails while a smaller block is free and
\* another block is allocated.
C19_Witness ==
    /\ buddy_call.op = "allocate_buddy"
    /\ buddy_call.ret = NoAddr
    /\ buddy_call.arg >= 2
    /\ buddy_call.arg <= total_memory_
    /\ DOMAIN allocated_blocks_ # {}
    /\ \E k \in 0..max_order_ : free_lists_[k] # << >>

(***************************************************************************)
(* C20: every address on the free list of order k is divisible by 2^k, and *)
(* every address returned by a successful allocate_buddy(size) is          *)
(* divisible by size rounded up to the next power of two.                  *)
(***************************************************************************)
C20_BuddyAlignment ==
    /\ \A k \in 0..max_order_ : \A i \in 1..Len(free_lists_[k]) :
           free_lists_[k][i] % Shl1(k) = 0
    /\ (buddy_call.op = "allocate_buddy" /\ buddy_call.ret # NoAddr)
           => buddy_call.ret % Shl1(CeilLog2(buddy_call.arg)) = 0

\* A block of two bytes was handed out at address 2 after a split left a
\* free byte at address 1.
C20_Witness ==
    /\ buddy_call.op = "allocate_buddy"
    /\ buddy_call.arg = 2
    /\ buddy_call.ret = 2
    /\ \E i \in 1..Len(free_lists_[0]) : free_lists_[0][i] = 1

(***************************************************************************)
(* C21: the value returned by a successful BuddyAllocator::allocate(size)  *)
(* is a multiple of size rounded up to a power of two, and two successive  *)
(* successful calls return distinct values.                                *)
(***************************************************************************)
C21_AllocateReturnsAligned ==
    /\ (iface_call.op = "allocate" /\ iface_call.ret # -1)
           => iface_call.ret % Shl1(CeilLog2(iface_call.arg)) = 0
    /\ \A id1, id2 \in DOMAIN id_to_addr_ :
           id1 # id2 => id_to_addr_[id1] # id_to_addr_[id2]

(***************************************************************************)
(* C22: constructing any engine with a zero dimension produces no          *)
(* instance: total_size 0, buddy total 0, cache_size, line_size or         *)
(* associativity 0, num_virtual_pages, num_physical_frames or page_size 0  *)
(* are all rejected at construction.                                       *)
(***************************************************************************)
C22_ZeroDimensionRejected ==
    (ctor_call.outcome \in { "instance", "rejected" }
        /\ \E i \in 1..Len(ctor_call.args) : ctor_call.args[i] = 0)
        => ctor_call.outcome = "rejected"

(***************************************************************************)
(* C23: allocate_best_fit(size) places the new block at the start of the   *)
(* free block whose size is the smallest among all free blocks with        *)
(* size >= the request, taking the one with the lowest start when several  *)
(* have that size.                                                         *)
(***************************************************************************)
\* The positions of the free blocks, and of those that can hold size bytes.
FreeBlocks(bl) == { i \in 1..Len(bl) : bl[i].free }

FittingBlocks(bl, size) == { i \in FreeBlocks(bl) : bl[i].size >= size }

\* after is before with size bytes allocated under id at the start of the
\* free block at position i, the rest of that block staying free behind it.
PlacedAt(before, after, i, size, id) ==
    /\ after[i] = MemoryBlock(before[i].start, size, FALSE, id)
    /\ \A j \in 1..(i - 1) : after[j] = before[j]
    /\ IF before[i].size = size
       THEN /\ Len(after) = Len(before)
            /\ \A j \in (i + 1)..Len(before) : after[j] = before[j]
       ELSE /\ Len(after) = Len(before) + 1
            /\ after[i + 1] = MemoryBlock(before[i].start + size,
                                          before[i].size - size, TRUE, NoId)
            /\ \A j \in (i + 1)..Len(before) : after[j + 1] = before[j]

C23_BestFitStep ==
    LET size == fl_call'.arg
        fits == FittingBlocks(blocks_, size)
    IN  fl_call'.op = "allocate_best_fit"
            => /\ (fl_call'.ret = -1) <=> (fits = {})
               /\ fl_call'.ret # -1 =>
                      \E i \in fits :
                          /\ \A j \in fits :
                                 /\ blocks_[i].size <= blocks_[j].size
                                 /\ blocks_[j].size = blocks_[i].size
                                        => blocks_[i].start <= blocks_[j].start
                          /\ PlacedAt(blocks_, blocks_', i, size, fl_call'.ret)

C23_BestFitPlacement == [][C23_BestFitStep]_vars

\* With a free hole of 2 bytes at address 0 and one of 1 byte at address 3,
\* a request of 1 byte was placed in the hole at address 3.
C23_Witness ==
    /\ fl_call.op = "allocate_best_fit"
    /\ fl_call.arg = 1
    /\ fl_call.ret = 3
    /\ Len(blocks_) = 3
    /\ blocks_[1] = MemoryBlock(0, 2, TRUE, NoId)
    /\ blocks_[3] = MemoryBlock(3, 1, FALSE, 3)

(***************************************************************************)
(* C24: allocate_first_fit(size) places the new block at the start of the  *)
(* lowest-address free block with size >= the request, also when a later   *)
(* free block would fit more tightly.                                      *)
(***************************************************************************)
C24_FirstFitStep ==
    LET size == fl_call'.arg
        fits == FittingBlocks(blocks_, size)
    IN  fl_call'.op = "allocate_first_fit"
            => /\ (fl_call'.ret = -1) <=> (fits = {})
               /\ fl_call'.ret # -1 =>
                      \E i \in fits :
                          /\ \A j \in fits : i <= j /\ blocks_[i].start <= blocks_[j].start
                          /\ PlacedAt(blocks_, blocks_', i, size, fl_call'.ret)

C24_FirstFitPlacement == [][C24_FirstFitStep]_vars

\* With free holes of 2 bytes at address 0 and of 1 byte at address 3, a
\* request of 1 byte was placed at address 0 and the exact hole left free.
C24_Witness ==
    /\ fl_call.op = "allocate_first_fit"
    /\ fl_call.arg = 1
    /\ fl_call.ret = 3
    /\ Len(blocks_) = 4
    /\ blocks_[1] = MemoryBlock(0, 1, FALSE, 3)
    /\ blocks_[2] = MemoryBlock(1, 1, TRUE, NoId)
    /\ blocks_[4] = MemoryBlock(3, 1, TRUE, NoId)

(***************************************************************************)
(* C25: allocate_worst_fit(size) selects the free block with the largest   *)
(* size over all free blocks, ties broken by lowest start, and places the  *)
(* new block at its start; it fails exactly when that largest free block   *)
(* is smaller than the request.                                            *)
(***************************************************************************)
C25_WorstFitStep ==
    LET size == fl_call'.arg
        free == FreeBlocks(blocks_)
    IN  fl_call'.op = "allocate_worst_fit"
            => /\ (fl_call'.ret = -1)
                      <=> (\A j \in free : blocks_[j].size < size)
               /\ (fl_call'.ret = -1) <=> (largest_free_block(blocks_) < size
                                              \/ free = {})
               /\ fl_call'.ret # -1 =>
                      \E i \in free :
                          /\ \A j \in free :
                                 /\ blocks_[i].size >= blocks_[j].size
                                 /\ blocks_[j].size = blocks_[i].size
                                        => blocks_[i].start <= blocks_[j].start
                          /\ PlacedAt(blocks_, blocks_', i, size, fl_call'.ret)

C25_WorstFitPlacement == [][C25_WorstFitStep]_vars

\* With free holes of 1 byte at address 0 and of 2 bytes at address 2, a
\* request of 1 byte was placed in the larger hole, at address 2.
C25_Witness ==
    /\ fl_call.op = "allocate_worst_fit"
    /\ fl_call.arg = 1
    /\ fl_call.ret = 3
    /\ Len(blocks_) = 4
    /\ blocks_[1] = MemoryBlock(0, 1, TRUE, NoId)
    /\ blocks_[3] = MemoryBlock(2, 1, FALSE, 3)
    /\ blocks_[4] = MemoryBlock(3, 1, TRUE, NoId)

(***************************************************************************)
(* C26: after any sequence of access and fill calls, hits + misses equals  *)
(* the number of access calls made; fill changes neither hits nor misses,  *)
(* and each access increments exactly one of the two counters by one.      *)
(***************************************************************************)
C26_CounterStep ==
    /\ cache_accesses' # cache_accesses
           => \/ cache_'.hits = cache_.hits + 1 /\ cache_'.misses = cache_.misses
              \/ cache_'.hits = cache_.hits /\ cache_'.misses = cache_.misses + 1
    /\ (cache_call'.op = "fill" /\ cache_accesses' = cache_accesses)
           => cache_'.hits = cache_.hits /\ cache_'.misses = cache_.misses

C26_HitsPlusMissesCountAccesses ==
    /\ [](cache_.hits + cache_.misses = cache_accesses)
    /\ [][C26_CounterStep]_vars

\* A fill has just been made after accesses that hit and accesses that
\* missed.
C26_Witness ==
    /\ cache_call.op = "fill"
    /\ cache_.hits >= 1
    /\ cache_.misses >= 1
    /\ cache_accesses = cache_.hits + cache_.misses
    /\ cache_.timestamp > cache_.misses

(***************************************************************************)
(* C27: if pa is absent from L1 but resident in L2 when                    *)
(* CacheHierarchy::access(pa) is called, the call returns true, increments *)
(* l1_misses and l2_hits by one each and no other counter, and leaves pa   *)
(* resident in L1, so that an immediately following access(pa) is an L1    *)
(* hit; if pa is absent from both levels the call returns false and leaves *)
(* pa resident in both.                                                    *)
(***************************************************************************)
\* pa is resident in level c: a valid line of its set carries its tag.
Resident(c, pa) ==
    LET addr == decode_address(c, pa)
    IN  LinesWithTag(c.sets[addr.index], addr.tag) >= 1

C27_RefillStep ==
    LET pa == hier_call'.arg
    IN  /\ (~Resident(l1_, pa) /\ Resident(l2_, pa))
               => /\ hier_call'.ret = TRUE
                  /\ l1_'.misses = l1_.misses + 1
                  /\ l2_'.hits = l2_.hits + 1
                  /\ l1_'.hits = l1_.hits
                  /\ l2_'.misses = l2_.misses
                  /\ Resident(l1_', pa)
        /\ (~Resident(l1_, pa) /\ ~Resident(l2_, pa))
               => /\ hier_call'.ret = FALSE
                  /\ Resident(l1_', pa)
                  /\ Resident(l2_', pa)
        /\ Resident(l1_, pa)
               => /\ hier_call'.ret = TRUE
                  /\ l1_'.hits = l1_.hits + 1
                  /\ l1_'.misses = l1_.misses
                  /\ l2_' = l2_
        /\ (hier_call.op = "access" /\ hier_call.arg = pa)
               => /\ hier_call'.ret = TRUE
                  /\ l1_'.hits = l1_.hits + 1

C27_L2HitRefillsL1 == [][C27_RefillStep]_vars

\* The only call that returned true so far is the last one, and it was
\* served by L2: its address had been evicted from L1 and is back in it.
C27_Witness ==
    /\ hier_call.op = "access"
    /\ hier_call.ret = TRUE
    /\ l1_hits = 0
    /\ l2_hits = 1
    /\ l1_misses = 3
    /\ l2_misses = 2
    /\ Resident(l1_, hier_call.arg)

(***************************************************************************)
(* C28: under both FIFO and LRU the timestamp is incremented exactly once  *)
(* per page fault and never on a hit, so timestamp = page_faults after any *)
(* sequence of translate calls, and distinct resident pages have distinct  *)
(* loaded_at values.                                                       *)
(***************************************************************************)
C28_ClockCountsFaults ==
    /\ vm_.timestamp = page_faults(vm_)
    /\ \A v1, v2 \in ValidPages(vm_) :
           v1 # v2 => vm_.page_table[v1].loaded_at # vm_.page_table[v2].loaded_at

(***************************************************************************)
(* C29: the in-use frames are in one-to-one correspondence with the valid  *)
(* page-table entries (number of valid entries = number of in-use frames   *)
(* <= num_physical_frames); an eviction transfers the victim's frame to    *)
(* the faulting page without the frame ever being marked free, and a frame *)
(* once marked in use is never marked free again.                          *)
(***************************************************************************)
InUseFrames(vm) == { f \in DOMAIN vm.frame_free : ~vm.frame_free[f] }

C29_FramesMatchPages ==
    /\ { vm_.page_table[v].frame_number : v \in ValidPages(vm_) } = InUseFrames(vm_)
    /\ Cardinality(ValidPages(vm_)) = Cardinality(InUseFrames(vm_))
    /\ Cardinality(InUseFrames(vm_)) <= NumFrames(vm_)

C29_OwnershipStep ==
    /\ InUseFrames(vm_) \subseteq InUseFrames(vm_')
    /\ (vm_' # vm_ /\ vm_call'.victim_vpn # NoVictim)
           => LET victim == vm_call'.victim_vpn
                  vpn == vm_call'.va \div vm_.page_size
              IN  /\ vm_'.frame_free = vm_.frame_free
                  /\ victim \in ValidPages(vm_)
                  /\ victim \notin ValidPages(vm_')
                  /\ vpn \in ValidPages(vm_')
                  /\ vm_'.page_table[vpn].frame_number
                         = vm_.page_table[victim].frame_number

C29_FrameOwnership ==
    /\ []C29_FramesMatchPages
    /\ [][C29_OwnershipStep]_vars

\* An LRU manager with two frames, both in use, has just evicted a page.
C29_Witness ==
    /\ vm_.replacement_policy = "LRU"
    /\ NumFrames(vm_) = 2
    /\ vm_call.victim_vpn # NoVictim
    /\ InUseFrames(vm_) = { 0, 1 }
    /\ vm_call.ret \div vm_.page_size = 1

(***************************************************************************)
(* C30: with num_physical_frames >= 1 and either policy, translate of any  *)
(* address whose vpn is below num_virtual_pages always succeeds: when no   *)
(* frame is free a valid victim entry always exists and is evicted, so the *)
(* 'out of frames' outcome is unreachable.                                 *)
(***************************************************************************)
C30_VictimStep ==
    (vm_' # vm_ /\ vm_call'.page_fault /\ InUseFrames(vm_) = DOMAIN vm_.frame_free)
        => /\ vm_call'.victim_vpn # NoVictim
           /\ vm_call'.victim_vpn \in ValidPages(vm_)
           /\ vm_call'.victim_vpn \notin ValidPages(vm_')

C30_InRangeTranslateSucceeds ==
    /\ []((vm_call.va >= 0 /\ vm_call.va \div vm_.page_size < NumPages(vm_))
              => (vm_call.error = "none" /\ vm_call.ret >= 0))
    /\ [](vm_call.error \in { "none", "out_of_range" })
    /\ [][C30_VictimStep]_vars

\* An LRU manager with a single frame has evicted for the third time.
C30_Witness ==
    /\ vm_.replacement_policy = "LRU"
    /\ NumFrames(vm_) = 1
    /\ vm_call.error = "none"
    /\ vm_call.victim_vpn # NoVictim
    /\ page_faults(vm_) = 4

(***************************************************************************)
(* C31: page_faults equals the number of translate calls made with an      *)
(* in-range vpn that was not resident at the time of the call; while free  *)
(* frames remain each fault takes the lowest-indexed free frame, so the    *)
(* first k <= num_physical_frames distinct pages touched get frames        *)
(* 0..k-1 in order and cause exactly k faults.                             *)
(***************************************************************************)
FreeFrames(vm) == { f \in DOMAIN vm.frame_free : vm.frame_free[f] }

LowestFree(vm) == CHOOSE f \in FreeFrames(vm) : \A g \in FreeFrames(vm) : f <= g

\* A call counts one fault exactly when its vpn is in range and not resident
\* before the call; with a free frame left the page gets the lowest one.
C31_FaultStep ==
    LET va == vm_call'.va
        vpn == va \div vm_.page_size
        missing == va >= 0 /\ vpn < NumPages(vm_) /\ ~vm_.page_table[vpn].valid
    IN  /\ page_faults(vm_') = page_faults(vm_) + (IF missing THEN 1 ELSE 0)
        /\ (missing /\ FreeFrames(vm_) # {})
               => /\ vm_call'.victim_vpn = NoVictim
                  /\ vm_'.page_table[vpn].valid
                  /\ vm_'.page_table[vpn].frame_number = LowestFree(vm_)
                  /\ FreeFrames(vm_') = FreeFrames(vm_) \ { LowestFree(vm_) }
                  /\ ValidPages(vm_') = ValidPages(vm_) \cup { vpn }

\* Until the frames run out, the i-th page faulted on holds frame i - 1.
C31_FirstPagesInOrder ==
    /\ page_faults(vm_) = Len(vm_loads)
    /\ page_faults(vm_) <= NumFrames(vm_)
           => /\ \A i \in 1..Len(vm_loads) :
                     /\ vm_.page_table[vm_loads[i]].valid
                     /\ vm_.page_table[vm_loads[i]].frame_number = i - 1
              /\ \A i, j \in 1..Len(vm_loads) : vm_loads[i] = vm_loads[j] => i = j
              /\ InUseFrames(vm_) = 0..(page_faults(vm_) - 1)

C31_FaultsTakeLowestFreeFrame ==
    /\ []C31_FirstPagesInOrder
    /\ [][C31_FaultStep]_vars

\* Pages 2 and 0 were touched in that order, filled both frames, and the
\* last call hit.
C31_Witness ==
    /\ NumFrames(vm_) = 2
    /\ vm_loads = << 2, 0 >>
    /\ page_faults(vm_) = 2
    /\ vm_.page_table[2].frame_number = 0
    /\ vm_.page_table[0].frame_number = 1
    /\ vm_call.error = "none"
    /\ ~vm_call.page_fault

(***************************************************************************)
(* C32: a translate that hits (vpn resident) changes nothing in the        *)
(* manager's state: the page table (valid, frame_number, loaded_at of      *)
(* every entry), the frame bitmap, the timestamp and page_faults are all   *)
(* unchanged, under FIFO and under LRU.                                    *)
(***************************************************************************)
C32_HitStep ==
    LET va == vm_call'.va
        vpn == va \div vm_.page_size
    IN  (va >= 0 /\ vpn \in ValidPages(vm_))
            => /\ \A v \in DOMAIN vm_.page_table :
                      /\ vm_'.page_table[v].valid = vm_.page_table[v].valid
                      /\ vm_'.page_table[v].frame_number = vm_.page_table[v].frame_number
                      /\ vm_'.page_table[v].loaded_at = vm_.page_table[v].loaded_at
               /\ DOMAIN vm_'.page_table = DOMAIN vm_.page_table
               /\ vm_'.frame_free = vm_.frame_free
               /\ vm_'.timestamp = vm_.timestamp
               /\ vm_'.page_faults = vm_.page_faults
               /\ vm_' = vm_

C32_WitnessFIFO ==
    /\ vm_.replacement_policy = "FIFO"
    /\ vm_.timestamp = 2
    /\ vm_call.va >= 0
    /\ ~vm_call.page_fault
    /\ vm_call.error = "none"
    /\ vm_.page_table[vm_call.va \div vm_.page_size].loaded_at = 0

(***************************************************************************)
(* C33: on an access miss or a fill, the line overwritten is the           *)
(* lowest-indexed invalid line of the set if one exists, otherwise the     *)
(* valid line with the smallest inserted_at; an access hit changes no line *)
(* (it does not refresh inserted_at), so in a full set the line evicted is *)
(* the one filled earliest regardless of how recently it was hit.          *)
(***************************************************************************)
\* The set index and the tag of an address, by division.
SetIndexOf(c, pa) == (pa \div c.line_size) % c.num_sets

TagOf(c, pa) == pa \div (c.line_size * c.num_sets)

HitsIn(c, pa) ==
    \E w \in 1..c.associativity :
        c.sets[SetIndexOf(c, pa)][w].valid /\ c.sets[SetIndexOf(c, pa)][w].tag = TagOf(c, pa)

\* Line v is the one the claim names as the victim in set.
IsClaimedVictim(set, v) ==
    LET invalid == { w \in 1..Len(set) : ~set[w].valid }
    IN  IF invalid # {}
        THEN v \in invalid /\ \A w \in invalid : v <= w
        ELSE \A w \in 1..Len(set) : w # v => set[v].inserted_at < set[w].inserted_at

C33_VictimStep ==
    LET pa == cache_call'.arg
        idx == SetIndexOf(cache_, pa)
        installs == \/ cache_call'.op = "fill"
                    \/ cache_call'.op = "access" /\ ~HitsIn(cache_, pa)
    IN  /\ (cache_call'.op = "access" /\ HitsIn(cache_, pa))
               => /\ cache_'.sets = cache_.sets
                  /\ cache_call'.ret
        /\ installs
               => \E v \in 1..cache_.associativity :
                      /\ IsClaimedVictim(cache_.sets[idx], v)
                      /\ cache_'.sets[idx][v] =
                             [valid |-> TRUE, tag |-> TagOf(cache_, pa),
                              inserted_at |-> cache_.timestamp]
                      /\ \A i \in DOMAIN cache_.sets : \A w \in 1..cache_.associativity :
                             (i # idx \/ w # v) => cache_'.sets[i][w] = cache_.sets[i][w]

C33_VictimSelection == [][C33_VictimStep]_vars

\* In a full 2-way set the line that was hit last, after the other line was
\* installed, has just been overwritten by an access miss.
C33_Witness ==
    /\ cache_.associativity = 2
    /\ cache_call.op = "access"
    /\ ~cache_call.ret
    /\ cache_last_hit.index = SetIndexOf(cache_, cache_call.arg)
    /\ cache_last_hit.at = cache_.timestamp - 1
    /\ LET set == cache_.sets[cache_last_hit.index]
           hit == cache_last_hit.way
           other == 3 - cache_last_hit.way
       IN  /\ set[hit].inserted_at = cache_.timestamp - 1
           /\ set[other].valid
           /\ set[other].inserted_at < cache_.timestamp - 1

(***************************************************************************)
(* C34: the cache's timestamp increases by exactly one on every            *)
(* installation (access miss or fill) and on nothing else, so within any   *)
(* set the inserted_at values of the valid lines are pairwise distinct and *)
(* a later installation always carries a strictly larger inserted_at than  *)
(* an earlier one.                                                         *)
(***************************************************************************)
RECURSIVE InstallCount(_, _)
InstallCount(installs, indexes) ==
    IF indexes = {} THEN 0
    ELSE LET i == CHOOSE j \in indexes : TRUE
         IN  Len(installs[i]) + InstallCount(installs, indexes \ { i })

ValidLines(c) ==
    { l \in (DOMAIN c.sets) \X (1..c.associativity) : c.sets[l[1]][l[2]].valid }

C34_StampsDistinct ==
    /\ cache_.timestamp = InstallCount(cache_installs, DOMAIN cache_installs)
    /\ \A l \in ValidLines(cache_) :
           /\ cache_.sets[l[1]][l[2]].inserted_at >= 0
           /\ cache_.sets[l[1]][l[2]].inserted_at < cache_.timestamp
    /\ \A l, m \in ValidLines(cache_) :
           (l[1] = m[1] /\ l[2] # m[2])
               => cache_.sets[l[1]][l[2]].inserted_at # cache_.sets[m[1]][m[2]].inserted_at

C34_ClockStep ==
    LET pa == cache_call'.arg
        installs == \/ cache_call'.op = "fill"
                    \/ cache_call'.op = "access" /\ ~HitsIn(cache_, pa)
    IN  /\ cache_'.timestamp = cache_.timestamp + (IF installs THEN 1 ELSE 0)
        /\ installs
               => \E l \in ValidLines(cache_') :
                      /\ l[1] = SetIndexOf(cache_, pa)
                      /\ cache_'.sets[l[1]][l[2]].inserted_at = cache_.timestamp
                      /\ \A m \in ValidLines(cache_) :
                             cache_.sets[m[1]][m[2]].inserted_at
                                 < cache_'.sets[l[1]][l[2]].inserted_at

C34_ClockTicksPerInstallation ==
    /\ []C34_StampsDistinct
    /\ [][C34_ClockStep]_vars

\* After a hit and three installations, the last one a fill, a set holds the
\* lines stamped 1 and 2.
C34_Witness ==
    /\ cache_.timestamp = 3
    /\ cache_.hits = 1
    /\ cache_call.op = "fill"
    /\ \E i \in DOMAIN cache_.sets :
           /\ cache_.associativity = 2
           /\ { cache_.sets[i][w].inserted_at : w \in 1..2 } = { 1, 2 }
           /\ \A w \in 1..2 : cache_.sets[i][w].valid

(***************************************************************************)
(* C35: every block in the block list has size > 0 after any sequence of   *)
(* allocate_*_fit(size) calls with any size >= 0 and free_block calls (no  *)
(* zero-size block, allocated or free, is ever created).                   *)
(***************************************************************************)
C35_NoZeroSizeBlock == \A i \in 1..Len(blocks_) : blocks_[i].size > 0

(***************************************************************************)
(* C36: a successful allocate_buddy(size) takes the head of the free list  *)
(* of the smallest order >= target_order = ceil(log2(size)) that is        *)
(* non-empty, keeps the block's base address as the result, pushes exactly *)
(* one buddy (base + 2^j) onto the free list of each order j from the      *)
(* taken order - 1 down to target_order, records base at target_order, and *)
(* increases allocated_memory by exactly 2^target_order (e.g. 100 then 200 *)
(* bytes give allocated = 384).                                            *)
(***************************************************************************)
C36_AllocationStep ==
    LET size == buddy_call'.arg
        base == buddy_call'.ret
        target == CeilLog2(size)
        taken == CHOOSE k \in target..max_order_ :
                     /\ free_lists_[k] # << >>
                     /\ \A j \in target..(k - 1) : free_lists_[j] = << >>
    IN  (buddy_call'.op = "allocate_buddy" /\ base # NoAddr)
            => /\ size >= 1
               /\ \E k \in target..max_order_ : free_lists_[k] # << >>
               /\ base = Head(free_lists_[taken])
               /\ \A j \in 0..max_order_ :
                      free_lists_'[j] =
                          IF j = taken THEN Tail(free_lists_[j])
                          ELSE IF j >= target /\ j < taken
                               THEN << base + Shl1(j) >> \o free_lists_[j]
                               ELSE free_lists_[j]
               /\ base \notin DOMAIN allocated_blocks_
               /\ DOMAIN allocated_blocks_' = DOMAIN allocated_blocks_ \cup { base }
               /\ allocated_blocks_'[base] = target
               /\ \A a \in DOMAIN allocated_blocks_ :
                      allocated_blocks_'[a] = allocated_blocks_[a]
               /\ allocated_memory(buddy_') = allocated_memory(buddy_) + Shl1(target)

\* allocate_buddy(100) then allocate_buddy(200) on an arena of 1024.
C36_Example ==
    LET first == allocate_buddy(BuddyAllocator(1024), 100)
        second == allocate_buddy(first.buddy, 200)
    IN  /\ first.ret = 0
        /\ allocated_memory(first.buddy) = 128
        /\ second.ret = 256
        /\ allocated_memory(second.buddy) = 384
        /\ second.buddy.free_lists[7] = << 128 >>
        /\ second.buddy.free_lists[8] = << >>
        /\ second.buddy.free_lists[9] = << 512 >>

C36_AllocateBuddyStep ==
    /\ []C36_Example
    /\ [][C36_AllocationStep]_vars

\* With the bytes at 0 and 1 taken, a request of one byte split the free
\* block of order 1 at address 2 and left its buddy, the byte at 3, free.
C36_Witness ==
    /\ buddy_call.op = "allocate_buddy"
    /\ buddy_call.arg = 1
    /\ buddy_call.ret = 2
    /\ free_lists_[0] = << 3 >>
    /\ DOMAIN allocated_blocks_ = { 0, 1, 2 }
    /\ allocated_memory(buddy_) = 3

(***************************************************************************)
(* C37: LRU policy as coded: loaded_at is never written under LRU (the     *)
(* stamping branch requires a non-fault inside the fault path), so every   *)
(* entry keeps loaded_at = 0 and, whenever no frame is free, the victim is *)
(* the lowest-numbered resident vpn, independent of load order or access   *)
(* order.                                                                  *)
(***************************************************************************)
C37_NeverStamped ==
    vm_.replacement_policy = "LRU"
        => /\ \A v \in DOMAIN vm_.page_table : vm_.page_table[v].loaded_at = 0
           /\ vm_.timestamp = 0

C37_LowestVpnStep ==
    LET va == vm_call'.va
        vpn == va \div vm_.page_size
        faults == va >= 0 /\ vpn < NumPages(vm_) /\ ~vm_.page_table[vpn].valid
    IN  (vm_.replacement_policy = "LRU" /\ faults /\ FreeFrames(vm_) = {})
            => /\ vm_call'.victim_vpn \in ValidPages(vm_)
               /\ \A v \in ValidPages(vm_) : vm_call'.victim_vpn <= v
               /\ ValidPages(vm_') = (ValidPages(vm_) \ { vm_call'.victim_vpn }) \cup { vpn }

RECURSIVE LastDistinct(_, _, _)
LastDistinct(tags, n, found) ==
    IF n = 0 \/ tags = << >> THEN found
    ELSE LET last == tags[Len(tags)]
             front == SubSeq(tags, 1, Len(tags) - 1)
         IN  IF last \in found
             THEN LastDistinct(front, n, found)
             ELSE LastDistinct(front, n - 1, found \cup { last })

TagsHeld(set) == { set[w].tag : w \in { x \in 1..Len(set) : set[x].valid } }

C38_SetsHoldLastTags ==
    \A i \in DOMAIN cache_.sets :
        LET set == cache_.sets[i]
            d == Cardinality(Range(cache_installs[i]))
            n == MinOf(cache_.associativity, d)
        IN  /\ \A w, x \in 1..Len(set) :
                   (set[w].valid /\ set[x].valid /\ set[w].tag = set[x].tag) => w = x
            /\ Cardinality({ w \in 1..Len(set) : set[w].valid }) = n
            /\ TagsHeld(set) = LastDistinct(cache_installs[i], n, {})
            /\ Cardinality(TagsHeld(set)) = n

\* An access hits exactly when its tag is among the last N distinct tags
\* installed in its set.
C38_HitStep ==
    LET pa == cache_call'.arg
        idx == SetIndexOf(cache_, pa)
    IN  cache_call'.op = "access"
            => (cache_call'.ret
                   <=> TagOf(cache_, pa)
                           \in LastDistinct(cache_installs[idx], cache_.associativity, {}))

C38_AccessOnlyKeepsLastTags ==
    /\ []C38_SetsHoldLastTags
    /\ [][C38_HitStep]_vars

\* In a 2-way cache, access(A), access(B), access(A) on one set: the third
\* call hit.
C38_Witness ==
    /\ cache_.associativity = 2
    /\ cache_call.op = "access"
    /\ cache_call.ret
    /\ cache_accesses = 3
    /\ cache_.hits = 1
    /\ LET idx == SetIndexOf(cache_, cache_call.arg)
       IN  /\ Len(cache_installs[idx]) = 2
           /\ cache_installs[idx][1] = TagOf(cache_, cache_call.arg)
           /\ cache_installs[idx][2] # cache_installs[idx][1]
           /\ cache_last_hit = [index |-> idx, way |-> 1, at |-> 2]

(***************************************************************************)
(* C39: cache hierarchy inclusion for direct-mapped levels: when L1 and L2 *)
(* both have associativity 1 and the same line size and L2 has at least as *)
(* many sets as L1, then after any sequence of CacheHierarchy::access      *)
(* calls every line valid in L1 is also valid in L2 (an L2 eviction of a   *)
(* line is always preceded, in the same access, by its eviction from L1).  *)
(***************************************************************************)
\* The memory blocks (address div line size) held by the valid lines of c.
BlocksHeld(c) ==
    { c.sets[l[1]][l[2]].tag * c.num_sets + l[1] : l \in ValidLines(c) }

DirectMappedPair ==
    /\ l1_.associativity = 1
    /\ l2_.associativity = 1
    /\ l1_.line_size = l2_.line_size
    /\ l2_.num_sets >= l1_.num_sets

C39_Inclusion == DirectMappedPair => BlocksHeld(l1_) \subseteq BlocksHeld(l2_)

\* A block that leaves L2 is not in L1 after the call, and the block asked
\* for is in both levels.
C39_EvictionStep ==
    (DirectMappedPair /\ hier_call'.op = "access")
        => /\ (BlocksHeld(l2_) \ BlocksHeld(l2_')) \cap BlocksHeld(l1_') = {}
           /\ (hier_call'.arg \div l1_.line_size) \in BlocksHeld(l1_')
           /\ (hier_call'.arg \div l2_.line_size) \in BlocksHeld(l2_')

C39_DirectMappedInclusion ==
    /\ []C39_Inclusion
    /\ [][C39_EvictionStep]_vars

\* L1 of one set over L2 of two sets: the access of block 2 evicted block 0
\* from both levels while block 1 stays in L2.
C39_Witness ==
    /\ DirectMappedPair
    /\ l1_.num_sets = 1
    /\ l2_.num_sets = 2
    /\ l1_.line_size = 1
    /\ hier_call.arg = 2
    /\ ~hier_call.ret
    /\ l2_.misses = 3
    /\ BlocksHeld(l1_) = { 2 }
    /\ BlocksHeld(l2_) = { 1, 2 }

=============================================================================
